---- MODULE Spec2Model ----
\* A model of the cs-nades account / bookmark subsystem, of the
\* submission moderation pipeline and of report intake: the relational
\* store (accounts, bookmarks, submissions, reports, lineup_reports),
\* the staging area on disk, and the request handlers that read and
\* write them.
EXTENDS Integers, Sequences, FiniteSets, Bags, TLC

\* ---------------------------------------------------------------------
\* Bounds of the model
\* ---------------------------------------------------------------------
\* longest nickname that is hashed
MaxNickLen == 4
\* the clock unixepoch() reads runs from 0 to MaxTime
MaxTime == 1

\* submissions accepted in a run
MaxSubmissions == 2

\* reports accepted in a run, both tables together
MaxReports == 2

\* records of a dataset file, and the slugs they are drawn from
MaxRecords == 2

\* reads of the dataset file counted between two invalidations
MaxReads == 2

\* program constants
MAX_FILE_SIZE == 10485760

\* ---------------------------------------------------------------------
\* Values
\* ---------------------------------------------------------------------
\* a JavaScript null / undefined / SQL NULL, and a present value
None == << >>
Some(v) == << v >>

\* Strings that the code inspects character by character (nicknames,
\* cookie values, digests) are sequences of code points.
\* The characters nicknames are built from: space, "A", "a", "b".
Alphabet == {32, 65, 97, 98}

Nicknames == UNION { [1..n -> Alphabet] : n \in 0..MaxNickLen }

\* String.prototype.trim: strip white space at both ends
IsWhiteSpace(c) == c \in {9, 10, 11, 12, 13, 32, 160}

RECURSIVE TrimStart(_)
TrimStart(s) ==
  IF s # << >> /\ IsWhiteSpace(Head(s)) THEN TrimStart(Tail(s)) ELSE s

RECURSIVE TrimEnd(_)
TrimEnd(s) ==
  IF s # << >> /\ IsWhiteSpace(s[Len(s)])
  THEN TrimEnd(SubSeq(s, 1, Len(s) - 1)) ELSE s

Trim(s) == TrimEnd(TrimStart(s))

\* String.prototype.toLowerCase on the Latin letters
ToLowerCase(s) ==
  [ i \in 1..Len(s) |-> IF s[i] \in 65..90 THEN s[i] + 32 ELSE s[i] ]

\* the UTF-8 bytes hash.update(string) feeds to the digest
RECURSIVE Utf8(_)
Utf8(s) ==
  IF s = << >> THEN << >>
  ELSE (IF Head(s) < 128 THEN << Head(s) >>
        ELSE << 192 + (Head(s) \div 64), 128 + (Head(s) % 64) >>)
       \o Utf8(Tail(s))

\* ---------------------------------------------------------------------
\* SHA-256 (FIPS 180-4), the digest behind createHash('sha256').
\* A 32-bit word is a pair <<hi, lo>> of 16-bit halves, so that no
\* intermediate value leaves the range of the model checker's integers.
\* ---------------------------------------------------------------------
Half == 0..65535
Word == Half \X Half

\* bit i of the 16-bit number a
Bit(a, i) == (a \div (2 ^ i)) % 2

XorBit(a, b, i) == ((Bit(a, i) + Bit(b, i)) % 2) * (2 ^ i)

AndBit(a, b, i) == Bit(a, i) * Bit(b, i) * (2 ^ i)

\* bitwise exclusive or, and bitwise and, of two 16-bit numbers
BitXor[a \in Half, b \in Half] ==
  (((XorBit(a, b, 0) + XorBit(a, b, 1)) + (XorBit(a, b, 2) + XorBit(a, b, 3)))
   + ((XorBit(a, b, 4) + XorBit(a, b, 5)) + (XorBit(a, b, 6) + XorBit(a, b, 7))))
  + (((XorBit(a, b, 8) + XorBit(a, b, 9)) + (XorBit(a, b, 10) + XorBit(a, b, 11)))
     + ((XorBit(a, b, 12) + XorBit(a, b, 13)) + (XorBit(a, b, 14) + XorBit(a, b, 15))))

BitAnd[a \in Half, b \in Half] ==
  (((AndBit(a, b, 0) + AndBit(a, b, 1)) + (AndBit(a, b, 2) + AndBit(a, b, 3)))
   + ((AndBit(a, b, 4) + AndBit(a, b, 5)) + (AndBit(a, b, 6) + AndBit(a, b, 7))))
  + (((AndBit(a, b, 8) + AndBit(a, b, 9)) + (AndBit(a, b, 10) + AndBit(a, b, 11)))
     + ((AndBit(a, b, 12) + AndBit(a, b, 13)) + (AndBit(a, b, 14) + AndBit(a, b, 15))))

WXor[x \in Word, y \in Word] == << BitXor[x[1], y[1]], BitXor[x[2], y[2]] >>

WAnd[x \in Word, y \in Word] == << BitAnd[x[1], y[1]], BitAnd[x[2], y[2]] >>

WNot[x \in Word] == << 65535 - x[1], 65535 - x[2] >>

\* addition modulo 2^32
WAdd[x \in Word, y \in Word] ==
  << (x[1] + y[1] + ((x[2] + y[2]) \div 65536)) % 65536, (x[2] + y[2]) % 65536 >>

\* logical shift right by n < 16
Shr[x \in Word, n \in 0..15] ==
  << x[1] \div (2 ^ n), (x[2] \div (2 ^ n)) + (x[1] % (2 ^ n)) * (2 ^ (16 - n)) >>

\* rotate right by n < 16
Rotr16[x \in Word, n \in 0..15] ==
  << (x[1] \div (2 ^ n)) + (x[2] % (2 ^ n)) * (2 ^ (16 - n)),
     (x[2] \div (2 ^ n)) + (x[1] % (2 ^ n)) * (2 ^ (16 - n)) >>

\* rotate right by n < 32
Rotr[x \in Word, n \in 0..31] ==
  IF n >= 16 THEN Rotr16[<< x[2], x[1] >>, n - 16] ELSE Rotr16[x, n]

Ch[x \in Word, y \in Word, z \in Word] ==
  WXor[WAnd[x, y], WAnd[WNot[x], z]]

Maj[x \in Word, y \in Word, z \in Word] ==
  WXor[WXor[WAnd[x, y], WAnd[x, z]], WAnd[y, z]]

BigSigma0[x \in Word] == WXor[WXor[Rotr[x, 2], Rotr[x, 13]], Rotr[x, 22]]

BigSigma1[x \in Word] == WXor[WXor[Rotr[x, 6], Rotr[x, 11]], Rotr[x, 25]]

SmallSigma0[x \in Word] == WXor[WXor[Rotr[x, 7], Rotr[x, 18]], Shr[x, 3]]

SmallSigma1[x \in Word] == WXor[WXor[Rotr[x, 17], Rotr[x, 19]], Shr[x, 10]]

SHA256_K ==
  <<
    <<17034, 12184>>, <<28983, 17553>>, <<46528, 64463>>, <<59829, 56229>>,
    <<14678, 49755>>, <<23025, 4593>>, <<37439, 33444>>, <<43804, 24277>>,
    <<55303, 43672>>, <<4739, 23297>>, <<9265, 34238>>, <<21772, 32195>>,
    <<29374, 23924>>, <<32990, 45566>>, <<39900, 1703>>, <<49563, 61812>>,
    <<58523, 27073>>, <<61374, 18310>>, <<4033, 40390>>, <<9228, 41420>>,
    <<11753, 11375>>, <<19060, 33962>>, <<23728, 43484>>, <<30457, 35034>>,
    <<38974, 20818>>, <<43057, 50797>>, <<45059, 10184>>, <<48985, 32711>>,
    <<50912, 3059>>, <<54695, 37191>>, <<1738, 25425>>, <<5161, 10599>>,
    <<10167, 2693>>, <<11803, 8504>>, <<19756, 28156>>, <<21304, 3347>>,
    <<25866, 29524>>, <<30314, 2747>>, <<33218, 51502>>, <<37490, 11397>>,
    <<41663, 59553>>, <<43034, 26187>>, <<49739, 35696>>, <<51052, 20899>>,
    <<53650, 59417>>, <<54937, 1572>>, <<62478, 13701>>, <<4202, 41072>>,
    <<6564, 49430>>, <<7735, 27656>>, <<10056, 30540>>, <<13488, 48309>>,
    <<14620, 3251>>, <<20184, 43594>>, <<23452, 51791>>, <<26670, 28659>>,
    <<29839, 33518>>, <<30885, 25455>>, <<33992, 30740>>, <<36039, 520>>,
    <<37054, 65530>>, <<42064, 27883>>, <<48889, 41975>>, <<50801, 30962>> >>

SHA256_H0 ==
  <<
    <<27145, 58983>>, <<47975, 44677>>, <<15470, 62322>>, <<42319, 62778>>,
    <<20750, 21119>>, <<39685, 26764>>, <<8067, 55723>>, <<23520, 52505>> >>

\* message padding: 0x80, zeros up to 56 mod 64, then the bit length in
\* 8 big-endian bytes (the messages of the model are far below 2^28 bytes)
Pad(bytes) ==
  LET L == Len(bytes)
      z == (119 - (L % 64)) % 64
      bits == L * 8
  IN  bytes \o << 128 >> \o [ i \in 1..z |-> 0 ] \o << 0, 0, 0, 0 >> \o
      << (bits \div 16777216) % 256, (bits \div 65536) % 256,
         (bits \div 256) % 256, bits % 256 >>

\* the 16 message words of block b (0-based) of the padded message
BlockWords(p, b) ==
  [ t \in 1..16 |->
      LET o == 64 * b + 4 * (t - 1)
      IN  << p[o + 1] * 256 + p[o + 2], p[o + 3] * 256 + p[o + 4] >> ]

\* the message schedule w extended by its next word
Extend[w \in Seq(Word)] ==
  LET t == Len(w) + 1
  IN  Append(w, WAdd[WAdd[SmallSigma1[w[t - 2]], w[t - 7]],
                     WAdd[SmallSigma0[w[t - 15]], w[t - 16]]])

Extend8[w \in Seq(Word)] ==
  Extend[Extend[Extend[Extend[Extend[Extend[Extend[Extend[w]]]]]]]]

\* the 64-word message schedule of a block of 16 words
Schedule(m) == Extend8[Extend8[Extend8[Extend8[Extend8[Extend8[m]]]]]]

\* the working words v after a round whose temporaries are t1 and t2
RoundStep[v \in Seq(Word), t1 \in Word, t2 \in Word] ==
  << WAdd[t1, t2], v[1], v[2], v[3], WAdd[v[4], t1], v[5], v[6], v[7] >>

\* round t over the eight working words v
Round[v \in Seq(Word), w \in Seq(Word), t \in 1..64] ==
  RoundStep[v,
            WAdd[WAdd[WAdd[v[8], BigSigma1[v[5]]],
                      WAdd[Ch[v[5], v[6], v[7]], SHA256_K[t]]], w[t]],
            WAdd[BigSigma0[v[1]], Maj[v[1], v[2], v[3]]]]

\* rounds t .. t + 7
Round8[v \in Seq(Word), w \in Seq(Word), t \in 1..57] ==
  Round[Round[Round[Round[Round[Round[Round[Round[v, w, t], w, t + 1],
    w, t + 2], w, t + 3], w, t + 4], w, t + 5], w, t + 6], w, t + 7]

Rounds[v \in Seq(Word), w \in Seq(Word)] ==
  Round8[Round8[Round8[Round8[Round8[Round8[Round8[Round8[v, w, 1], w, 9],
    w, 17], w, 25], w, 33], w, 41], w, 49], w, 57]

\* the working words v added to the hash value h
AddWords[h \in Seq(Word), v \in Seq(Word)] ==
  << WAdd[h[1], v[1]], WAdd[h[2], v[2]], WAdd[h[3], v[3]], WAdd[h[4], v[4]],
     WAdd[h[5], v[5]], WAdd[h[6], v[6]], WAdd[h[7], v[7]], WAdd[h[8], v[8]] >>

\* the hash value after one more block m
Compress[h \in Seq(Word), m \in Seq(Word)] ==
  AddWords[h, Rounds[h, Schedule(m)]]

\* the hash value after the blocks b, b + 1, ... of the padded message p
HashBlocks[h \in Seq(Word), p \in Seq(0..255), b \in Nat] ==
  IF 64 * b >= Len(p) THEN h
  ELSE HashBlocks[Compress[h, BlockWords(p, b)], p, b + 1]

Sha256(bytes) == HashBlocks[SHA256_H0, Pad(bytes), 0]

\* digest('hex'): two lowercase hexadecimal characters per byte
HexChar(d) == IF d < 10 THEN 48 + d ELSE 87 + d

HexOf16(n) ==
  << HexChar(n \div 4096), HexChar((n \div 256) % 16),
     HexChar((n \div 16) % 16), HexChar(n % 16) >>

HexOfWord(x) == HexOf16(x[1]) \o HexOf16(x[2])

DigestHex[h \in Seq(Word)] ==
  HexOfWord(h[1]) \o HexOfWord(h[2]) \o HexOfWord(h[3]) \o HexOfWord(h[4]) \o
  HexOfWord(h[5]) \o HexOfWord(h[6]) \o HexOfWord(h[7]) \o HexOfWord(h[8])

\* ---------------------------------------------------------------------
\* Identity hasher (lib/auth)
\* ---------------------------------------------------------------------
\* the normalized forms of the nicknames of the model
Messages == { ToLowerCase(Trim(n)) : n \in Nicknames }

\* createHash('sha256').update(m).digest('hex'), tabulated once
Sha256Hex == [ m \in Messages |-> DigestHex[Sha256(Utf8(m))] ] @@ << >>

\* hashNickname without the lowercasing
hashNickname_noLowerCase(nickname) == DigestHex[Sha256(Utf8(Trim(nickname)))]

\* createHash('sha256').update(nickname.trim().toLowerCase()).digest('hex')
hashNickname(nickname) == Sha256Hex[ToLowerCase(Trim(nickname))]

IsHexChar(c) == c \in 48..57 \/ c \in 97..102

\* getAccountHash: the first 64 characters after "nades_account=" when
\* they match [a-f0-9]{64}; cookie is the value of that cookie, or None
getAccountHash(cookie) ==
  IF cookie # None /\ Len(cookie[1]) >= 64
     /\ \A i \in 1..64 : IsHexChar(cookie[1][i])
  THEN Some(SubSeq(cookie[1], 1, 64))
  ELSE None

\* ---------------------------------------------------------------------
\* State
\* ---------------------------------------------------------------------
VARIABLES
  accounts,         \* table accounts: rows [hash, created_at]
  bookmarks,        \* table bookmarks: rows [account_hash, slug, created_at]
  submissions,      \* table submissions
  sqlite_sequence,  \* AUTOINCREMENT counter of table submissions
  staging,          \* the staging area: directory path -> set of file names
  now,              \* the clock read by unixepoch()
  resp,             \* the response to the last completed request
  reqs,             \* the requests in flight, one per connection
  round0,           \* the bookmarks table when the requests in flight were accepted
  hin,              \* the nickname handed to the identity hasher
  hout,             \* the identifiers it produced
  reports,          \* table reports
  lineup_reports,   \* table lineup_reports
  nadesFile,        \* the dataset file nades.json: absent, or its text
  cache,            \* the module variable _cache of the dataset loader
  loaded,           \* the outcome of the last call of loadNades
  fileReads         \* reads of the dataset file since _cache was last null

vars ==
  << accounts, bookmarks, submissions, sqlite_sequence, staging, now,
     resp, reqs, round0, hin, hout, reports, lineup_reports,
     nadesFile, cache, loaded, fileReads >>

accountVars == << accounts, bookmarks >>
moderationVars == << submissions, sqlite_sequence, staging >>
raceVars == << reqs, round0 >>
hashVars == << hin, hout >>
reportVars == << reports, lineup_reports >>
nadesVars == << nadesFile, cache, loaded, fileReads >>

\* no call of loadNades has returned yet
NoLoad == [ok |-> FALSE, nades |-> << >>, read |-> FALSE]

\* ---------------------------------------------------------------------
\* The relational store (lib/db initSchema) as seen through getDb()
\* ---------------------------------------------------------------------
\* a connection opened without the foreign_keys pragma
ForeignKeysOff == FALSE

\* _db.pragma('foreign_keys = ON')
ForeignKeysOn == TRUE

\* a table is the bag of its rows
Rows(tbl) == BagToSet(tbl)

InsertRow(tbl, row) == tbl (+) SetToBag({row})

AccountExists(tbl, h) == \E r \in Rows(tbl) : r.hash = h

\* an insert that does not skip a conflicting row
InsertOrIgnoreAccount_always(tbl, h, t) ==
  InsertRow(tbl, [hash |-> h, created_at |-> t])

\* INSERT OR IGNORE INTO accounts (hash) VALUES (?)
\* hash is the PRIMARY KEY: a conflicting row is skipped
InsertOrIgnoreAccount(tbl, h, t) ==
  IF AccountExists(tbl, h) THEN tbl
  ELSE InsertRow(tbl, [hash |-> h, created_at |-> t])

\* a bookmarks table declared without its primary key
BookmarkKeyTaken_never(tbl, h, s) == FALSE

\* PRIMARY KEY (account_hash, slug)
BookmarkKeyTaken(tbl, h, s) ==
  \E r \in Rows(tbl) : r.account_hash = h /\ r.slug = s

\* SELECT 1 FROM bookmarks WHERE account_hash = ? AND slug = ?
SelectBookmark(tbl, h, s) ==
  \E r \in Rows(tbl) : r.account_hash = h /\ r.slug = s

\* a delete whose WHERE clause names the slug alone
DeleteBookmark_bySlug(tbl, h, s) ==
  [ r \in { q \in Rows(tbl) : q.slug # s } |-> tbl[r] ]

\* a delete whose WHERE clause matches no row
DeleteBookmark_none(tbl, h, s) == tbl

\* DELETE FROM bookmarks WHERE account_hash = ? AND slug = ?
DeleteBookmark(tbl, h, s) ==
  [ r \in { q \in Rows(tbl) : ~(q.account_hash = h /\ q.slug = s) } |-> tbl[r] ]

\* INSERT INTO bookmarks (account_hash, slug) VALUES (?, ?)
\* the statement either adds one row or throws a constraint error
InsertBookmark(accts, tbl, h, s, t) ==
  IF BookmarkKeyTaken(tbl, h, s)
  THEN [ok |-> FALSE, error |-> "SQLITE_CONSTRAINT_PRIMARYKEY", rows |-> tbl]
  ELSE IF ForeignKeysOn /\ ~AccountExists(accts, h)
  THEN [ok |-> FALSE, error |-> "SQLITE_CONSTRAINT_FOREIGNKEY", rows |-> tbl]
  ELSE [ok |-> TRUE, error |-> "",
        rows |-> InsertRow(tbl, [account_hash |-> h, slug |-> s, created_at |-> t])]

\* SELECT slug FROM bookmarks WHERE account_hash = ?
SelectSlugs(tbl, h) ==
  { r.slug : r \in { q \in Rows(tbl) : q.account_hash = h } }

\* ---------------------------------------------------------------------
\* Requests and responses
\* ---------------------------------------------------------------------
Response(op, status, body, setCookie) ==
  [op |-> op, status |-> status, body |-> body, set_cookie |-> setCookie]

NoResponse == Response("none", 0, None, None)

\* the nickname fields a login request may carry: absent, or one of
\* "aaa", "AaA", " aaa", "aba", "aa", " a  ", ""
LoginNicknames ==
  { << 97, 97, 97 >>, << 65, 97, 65 >>, << 32, 97, 97, 97 >>,
    << 97, 98, 97 >>, << 97, 97 >>, << 32, 97, 32, 32 >>, << >> }

NicknameFields == {None} \cup { Some(n) : n \in LoginNicknames }

\* the values of the nades_account cookie a request may carry: none, the
\* identifier of "aaa", of "aba", of "aa" (a well-formed identifier that
\* login never issues), a value one character short, and one too long
CookieValues ==
  {None}
  \cup { Some(hashNickname(n)) :
           n \in { << 97, 97, 97 >>, << 97, 98, 97 >>, << 97, 97 >> } }
  \cup { Some(SubSeq(hashNickname(<< 97, 97, 97 >>), 1, 63)),
         Some(hashNickname(<< 97, 98, 97 >>) \o << 97 >>) }

Slugs == {"s1", "s2"}

\* the slug field of a JSON body: absent, empty, or a slug
SlugFields == {None, Some("")} \cup { Some(s) : s \in Slugs }

\* !slug
Falsy(field) == field = None \/ field = Some("")

\* ---------------------------------------------------------------------
\* Login and logout (pages/api/login)
\* ---------------------------------------------------------------------
\* body.nickname?.trim()
loginNickname(field) == IF field = None THEN None ELSE Some(Trim(field[1]))

\* a length check that lets two characters through
NicknameInvalid_two(nickname) ==
  nickname = None \/ nickname[1] = << >> \/ Len(nickname[1]) < 2

\* !nickname || nickname.length < 3
NicknameInvalid(nickname) ==
  nickname = None \/ nickname[1] = << >> \/ Len(nickname[1]) < 3

\* the identifier a login request is served under, None when it is rejected
loginIdentifier(field) ==
  IF NicknameInvalid(loginNickname(field)) THEN None
  ELSE Some(hashNickname(loginNickname(field)[1]))

Login(field) ==
  LET id == loginIdentifier(field)
  IN  /\ IF id = None
         THEN /\ resp' = Response("login", 400,
                    [error |-> "Nickname must be at least 3 characters"], None)
              /\ UNCHANGED accounts
         ELSE /\ accounts' = InsertOrIgnoreAccount(accounts, id[1], now)
              /\ resp' = Response("login", 200,
                    [ok |-> TRUE, bookmarks |-> SelectSlugs(bookmarks, id[1])],
                    id)
      /\ UNCHANGED << bookmarks, now, moderationVars, raceVars, hashVars, reportVars, nadesVars >>

\* a logout that also forgets the bookmarks
Logout_forget ==
  /\ resp' = Response("logout", 200, [ok |-> TRUE], Some(<< >>))
  /\ bookmarks' = EmptyBag
  /\ UNCHANGED << accounts, now, moderationVars, raceVars, hashVars, reportVars, nadesVars >>

\* DELETE /api/login: expire the cookie
Logout ==
  /\ resp' = Response("logout", 200, [ok |-> TRUE], Some(<< >>))
  /\ UNCHANGED << accountVars, now, moderationVars, raceVars, hashVars, reportVars, nadesVars >>

\* GET /api/logout: expire the cookie on both paths and redirect to the
\* base URL
LogoutGet ==
  /\ resp' = Response("logout", 302, None, Some(<< >>))
  /\ UNCHANGED << accountVars, now, moderationVars, raceVars, hashVars, reportVars, nadesVars >>

\* ---------------------------------------------------------------------
\* Bookmark toggle (pages/api/bookmarks)
\* ---------------------------------------------------------------------
\* lines 15-35, run without suspension once the body is read: the result
\* of the slug check, the existence check (on the table as the SELECT
\* sees it) and the insert or delete (on the table tbl)
ToggleStore(accts, seen, tbl, h, field, t) ==
  IF Falsy(field)
  THEN [status |-> 400, body |-> [error |-> "Missing slug"], rows |-> tbl]
  ELSE IF SelectBookmark(seen, h, field[1])
  THEN [status |-> 200, body |-> [bookmarked |-> FALSE],
        rows |-> DeleteBookmark(tbl, h, field[1])]
  ELSE LET ins == InsertBookmark(accts, tbl, h, field[1], t)
       IN  IF ins.ok
           THEN [status |-> 200, body |-> [bookmarked |-> TRUE],
                 rows |-> ins.rows]
           ELSE [status |-> 500, body |-> [error |-> ins.error],
                 rows |-> ins.rows]

Toggle(cookie, field) ==
  LET hash == getAccountHash(cookie)
  IN  /\ IF hash = None
         THEN /\ resp' = Response("toggle", 401,
                    [error |-> "Not logged in"], None)
              /\ UNCHANGED bookmarks
         ELSE LET r == ToggleStore(accounts, bookmarks, bookmarks,
                                       hash[1], field, now)
              IN  /\ bookmarks' = r.rows
                  /\ resp' = Response("toggle", r.status, r.body, None)
      /\ UNCHANGED << accounts, now, moderationVars, raceVars, hashVars, reportVars, nadesVars >>

\* a statement run on the connection outside the toggle path, as the
\* schema tests do: INSERT INTO bookmarks (account_hash, slug) VALUES (?, ?)
RawInsertBookmark(h, s) ==
  LET ins == InsertBookmark(accounts, bookmarks, h, s, now)
  IN  /\ bookmarks' = ins.rows
      /\ resp' = Response("insert",
                          IF ins.ok THEN 200 ELSE 500,
                          [error |-> ins.error], None)
      /\ UNCHANGED << accounts, now, moderationVars, raceVars, hashVars, reportVars, nadesVars >>

\* time passes
Tick ==
  /\ now < MaxTime
  /\ now' = now + 1
  /\ UNCHANGED << accountVars, resp, moderationVars, raceVars, hashVars, reportVars, nadesVars >>

\* the identifiers a well-formed cookie of the model carries
CookieHashes ==
  { getAccountHash(c)[1] : c \in { d \in CookieValues : getAccountHash(d) # None } }

Init ==
  /\ accounts = EmptyBag
  /\ bookmarks = EmptyBag
  /\ submissions = << >>
  /\ sqlite_sequence = 0
  /\ staging = << >>
  /\ now = 0
  /\ resp = NoResponse
  /\ reqs = << >>
  /\ round0 = << >>
  /\ hin = None
  /\ hout = None
  /\ reports = << >>
  /\ lineup_reports = << >>
  /\ nadesFile = None
  /\ cache = None
  /\ loaded = NoLoad
  /\ fileReads = 0

\* the account and bookmark subsystem, one request at a time
Next ==
  \/ \E f \in NicknameFields : Login(f)
  \/ Logout
  \/ \E c \in CookieValues, f \in SlugFields : Toggle(c, f)
  \/ \E h \in CookieHashes, s \in Slugs : RawInsertBookmark(h, s)
  \/ Tick

Spec == Init /\ [][Next]_vars

\* the session requests: login, both logouts, toggle
NextSession ==
  \/ \E f \in NicknameFields : Login(f)
  \/ Logout
  \/ LogoutGet
  \/ \E c \in CookieValues, f \in SlugFields : Toggle(c, f)
  \/ Tick

SpecSession == Init /\ [][NextSession]_vars

\* ---------------------------------------------------------------------
\* The identity hasher alone: a nickname is drawn, then hashed as
\* hashNickname does and as the login handler does
\* ---------------------------------------------------------------------
InitHash ==
  /\ accounts = EmptyBag
  /\ bookmarks = EmptyBag
  /\ submissions = << >>
  /\ sqlite_sequence = 0
  /\ staging = << >>
  /\ now = 0
  /\ resp = NoResponse
  /\ reqs = << >>
  /\ round0 = << >>
  /\ hin \in { Some(n) : n \in Nicknames }
  /\ hout = None
  /\ reports = << >>
  /\ lineup_reports = << >>
  /\ nadesFile = None
  /\ cache = None
  /\ loaded = NoLoad
  /\ fileReads = 0

ApplyHash ==
  /\ hout = None
  /\ hout' = Some([hash |-> hashNickname(hin[1]),
                   login |-> loginIdentifier(hin)])
  /\ UNCHANGED << accountVars, now, resp, moderationVars, raceVars, hin, reportVars, nadesVars >>

NextHash == ApplyHash

SpecHash == InitHash /\ [][NextHash]_vars

\* ---------------------------------------------------------------------
\* Paths (node:path join) and the staging area
\* ---------------------------------------------------------------------
\* the working directory of the public app, and of the admin app, whose
\* database path and staging path both go through '..'
AppCwd == << "srv", "cs-nades" >>

AdminCwd == << "srv", "cs-nades", "admin" >>

\* join(...): the segments appended one by one, '..' dropping the last
RECURSIVE Join(_, _)
Join(base, segs) ==
  IF segs = << >> THEN base
  ELSE IF Head(segs) = ".."
  THEN Join(IF base = << >> THEN base ELSE SubSeq(base, 1, Len(base) - 1),
            Tail(segs))
  ELSE Join(Append(base, Head(segs)), Tail(segs))

\* a staging path keyed by the identifier the next insert will get
IntakeStagingDir_next(id) == Join(AppCwd, << "staging", ToString(id + 1) >>)

\* join(process.cwd(), 'staging', String(result.lastInsertRowid))
IntakeStagingDir(id) == Join(AppCwd, << "staging", ToString(id) >>)

\* a staging path built without the step to the parent directory
ReviewStagingDir_noParent(id) == Join(AdminCwd, << "staging", ToString(id) >>)

\* join(process.cwd(), '..', 'staging', String(id))
ReviewStagingDir(id) == Join(AdminCwd, << "..", "staging", ToString(id) >>)

IsPrefix(p, q) == Len(p) <= Len(q) /\ SubSeq(q, 1, Len(p)) = p

\* mkdir(dir, { recursive: true }) followed by writeFile of each name
WriteFiles(fs, dir, names) ==
  [ d \in DOMAIN fs \cup {dir} |->
      IF d = dir
      THEN (IF dir \in DOMAIN fs THEN fs[dir] ELSE {}) \cup names
      ELSE fs[d] ]

\* rm(dir, { recursive: true, force: true }): the directory and all below
\* it are removed; a missing directory is not an error
RemoveTree(fs, dir) ==
  [ d \in { e \in DOMAIN fs : ~IsPrefix(dir, e) } |-> fs[d] ]

\* ---------------------------------------------------------------------
\* Table submissions (lib/db initSchema), rows in rowid order
\* ---------------------------------------------------------------------
\* CHECK(status IN ('pending', 'approved', 'rejected'))
StoredStatuses == {"pending", "approved", "rejected"}

SubmissionIds(tbl) == { tbl[i].id : i \in 1..Len(tbl) }

MaxOf(S) == IF S = {} THEN 0 ELSE CHOOSE m \in S : \A n \in S : n <= m

\* the rowid of a table without AUTOINCREMENT: one above the largest
\* rowid in the table
NextRowId_largestRow(tbl, seq) == MaxOf(SubmissionIds(tbl) \cup {0}) + 1

\* INTEGER PRIMARY KEY AUTOINCREMENT: one more than the largest rowid
\* ever used in the table
NextRowId(tbl, seq) == MaxOf(SubmissionIds(tbl) \cup {seq}) + 1

\* an insert that stamps the review time on the new row
InsertSubmission_reviewed(tbl, seq, url, map, side, data, t) ==
  Append(tbl, [id |-> NextRowId(tbl, seq), status |-> "pending",
               csnades_url |-> url, slug |-> None, map_name |-> map,
               side |-> side, data |-> data, submitted_at |-> t,
               reviewed_at |-> Some(t)])

\* INSERT INTO submissions (csnades_url, map_name, side, data) VALUES
\* (?, ?, ?, ?): status, slug, submitted_at and reviewed_at take their
\* defaults. The row has the columns of initSchema and the column side
\* that the intake statement writes.
InsertSubmission(tbl, seq, url, map, side, data, t) ==
  Append(tbl, [id |-> NextRowId(tbl, seq), status |-> "pending",
               csnades_url |-> url, slug |-> None, map_name |-> map,
               side |-> side, data |-> data, submitted_at |-> t,
               reviewed_at |-> None])

\* an update that writes the status and leaves the review timestamp
UpdateReview_statusOnly(tbl, id, status, t) ==
  [ok |-> TRUE, error |-> "",
   rows |-> [ i \in 1..Len(tbl) |->
               IF tbl[i].id = id THEN [tbl[i] EXCEPT !.status = status]
               ELSE tbl[i] ]]

\* an update without its WHERE clause
UpdateReview_everyRow(tbl, id, status, t) ==
  [ok |-> TRUE, error |-> "",
   rows |-> [ i \in 1..Len(tbl) |->
               [tbl[i] EXCEPT !.status = status, !.reviewed_at = Some(t)] ]]

\* UPDATE submissions SET status = ?, reviewed_at = unixepoch() WHERE id = ?
\* the CHECK constraint is evaluated for every row the statement touches
UpdateReview(tbl, id, status, t) ==
  IF id \in SubmissionIds(tbl) /\ status \notin StoredStatuses
  THEN [ok |-> FALSE, error |-> "SQLITE_CONSTRAINT_CHECK", rows |-> tbl]
  ELSE [ok |-> TRUE, error |-> "",
        rows |-> [ i \in 1..Len(tbl) |->
                    IF tbl[i].id = id
                    THEN [tbl[i] EXCEPT !.status = status,
                                        !.reviewed_at = Some(t)]
                    ELSE tbl[i] ]]

\* a delete that spares a row that is no longer pending
DeleteSubmission_pendingOnly(tbl, id) ==
  SelectSeq(tbl, LAMBDA r : r.id # id \/ r.status # "pending")

\* DELETE FROM submissions WHERE id = ?
DeleteSubmission(tbl, id) == SelectSeq(tbl, LAMBDA r : r.id # id)

\* ---------------------------------------------------------------------
\* Concurrent toggles: two connections, each request suspended once, at
\* `await request.json()`, and run to its response after that
\* ---------------------------------------------------------------------
Conns == {"a", "b"}

IdleReq ==
  [pc |-> "idle", hash |-> None, field |-> None, after_peer |-> FALSE,
   status |-> 0, body |-> None]

\* what a round of requests started from
RoundStart(accts, tbl) == [accounts |-> accts, bookmarks |-> tbl]

\* the cookies and slug fields of the concurrent requests: no cookie, the
\* identifier of "aaa", the identifier of "aa" (well-formed, never issued)
RaceCookies ==
  {None, Some(hashNickname(<< 97, 97, 97 >>)), Some(hashNickname(<< 97, 97 >>))}

RaceSlugFields == {None} \cup { Some(s) : s \in Slugs }

\* an existence check that had run before the handler was suspended
CheckedTable_stale(atAccept, atStore) == atAccept

\* the table the existence check of line 20 reads: the handler is not
\* suspended between `await request.json()` and its return, so the check
\* sees the table the insert or delete acts on
CheckedTable(atAccept, atStore) == atStore

\* lines 6-14: the identifier is read from the cookie, the handler is
\* suspended reading the body
ToggleBegin(c, cookie, field) ==
  LET hash == getAccountHash(cookie)
      first == \A d \in Conns : reqs[d].pc = "idle"
      late == \E d \in Conns : reqs[d].pc = "done"
  IN  /\ reqs[c].pc = "idle"
      /\ reqs' = [reqs EXCEPT ![c] =
            IF hash = None
            THEN [pc |-> "done", hash |-> None, field |-> field,
                  after_peer |-> late, status |-> 401,
                  body |-> [error |-> "Not logged in"]]
            ELSE [pc |-> "awaiting", hash |-> hash, field |-> field,
                  after_peer |-> late, status |-> 0, body |-> None]]
      /\ round0' = IF first THEN RoundStart(accounts, bookmarks) ELSE round0
      /\ UNCHANGED << accountVars, now, resp, moderationVars, hashVars, reportVars, nadesVars >>

\* lines 15-35
ToggleRun(c) ==
  LET q == reqs[c]
      r == ToggleStore(accounts, CheckedTable(round0.bookmarks, bookmarks),
                       bookmarks, q.hash[1], q.field, now)
  IN  /\ q.pc = "awaiting"
      /\ bookmarks' = r.rows
      /\ reqs' = [reqs EXCEPT ![c] =
            [q EXCEPT !.pc = "done", !.status = r.status, !.body = r.body]]
      /\ UNCHANGED << accounts, now, resp, round0, moderationVars, hashVars, reportVars, nadesVars >>

\* the responses of the round are delivered, the connections are free
RoundEnd ==
  /\ \A c \in Conns : reqs[c].pc # "awaiting"
  /\ \E c \in Conns : reqs[c].pc = "done"
  /\ reqs' = [c \in Conns |-> IdleReq]
  /\ round0' = RoundStart(EmptyBag, EmptyBag)
  /\ UNCHANGED << accountVars, now, resp, moderationVars, hashVars, reportVars, nadesVars >>

InitRace ==
  /\ accounts = EmptyBag
  /\ bookmarks = EmptyBag
  /\ submissions = << >>
  /\ sqlite_sequence = 0
  /\ staging = << >>
  /\ now = 0
  /\ resp = NoResponse
  /\ reqs = [c \in Conns |-> IdleReq]
  /\ round0 = RoundStart(EmptyBag, EmptyBag)
  /\ hin = None
  /\ hout = None
  /\ reports = << >>
  /\ lineup_reports = << >>
  /\ nadesFile = None
  /\ cache = None
  /\ loaded = NoLoad
  /\ fileReads = 0

NextRace ==
  \/ \E c \in Conns, k \in RaceCookies, f \in RaceSlugFields :
       ToggleBegin(c, k, f)
  \/ \E c \in Conns : ToggleRun(c)
  \/ RoundEnd
  \/ Login(Some(<< 97, 97, 97 >>))
  \/ Tick

SpecToggleRace == InitRace /\ [][NextRace]_vars

\* ---------------------------------------------------------------------
\* Submission intake (pages/api/submissions)
\* ---------------------------------------------------------------------
VALID_MAPS ==
  {"mirage", "dust2", "inferno", "overpass", "ancient", "anubis", "nuke"}

VALID_THROW_TYPES == {"left", "right", "left_jump", "run_left"}

VALID_SIDES == {"t", "ct"}

\* a multipart field that carries a file of the given size, or a text
File(size) == [file |-> TRUE, size |-> size]

Text(s) == [file |-> FALSE, text |-> s]

\* new URL(u).hostname for the URLs of the model, None when new URL throws
UrlHostname(u) ==
  CASE u = "https://csnades.gg/nades/1" -> Some("csnades.gg")
    [] u = "https://www.csnades.gg/nades/1" -> Some("www.csnades.gg")
    [] u = "http://CSNADES.GG/nades/1" -> Some("csnades.gg")
    [] u = "https://csnades.gg.example.org/nades/1"
         -> Some("csnades.gg.example.org")
    [] OTHER -> None

\* a check for absence that does not trim
Blank_noTrim(field) == field = None \/ field[1] = << >>

\* !s || !s.trim() for a text field given as code points
Blank(field) == field = None \/ Trim(field[1]) = << >>

\* formData.has('position') && formData.has('aim') && formData.has('result')
HasScreenshots(form) ==
  form.position # None /\ form.aim # None /\ form.result # None

\* !file || file.size === 0: a text value has no size
FileMissing(field) ==
  \/ field = None
  \/ field[1].file /\ field[1].size = 0
  \/ ~field[1].file /\ field[1].text = ""

\* a size check that lets through a file one byte above the limit
FileTooLarge_offByOne(field) ==
  field[1].file /\ field[1].size > MAX_FILE_SIZE + 1

\* file.size > MAX_FILE_SIZE
FileTooLarge(field) == field[1].file /\ field[1].size > MAX_FILE_SIZE

ScreenshotNames == << "position", "aim", "result" >>

FieldOf(form, name) ==
  CASE name = "position" -> form.position
    [] name = "aim" -> form.aim
    [] name = "result" -> form.result

\* the loop of lines 199-214 from screenshot k on
RECURSIVE FileError(_, _)
FileError(form, k) ==
  IF k > Len(ScreenshotNames) THEN None
  ELSE IF FileMissing(FieldOf(form, ScreenshotNames[k]))
  THEN Some("Missing " \o ScreenshotNames[k] \o " screenshot")
  ELSE IF FileTooLarge(FieldOf(form, ScreenshotNames[k]))
  THEN Some(ScreenshotNames[k] \o " screenshot exceeds 10 MB limit")
  ELSE FileError(form, k + 1)

\* lines 119-214: the error of the first check that fails, None when the
\* request passes them all
IntakeError(form) ==
  IF Falsy(form.csnades_url) /\ ~HasScreenshots(form)
  THEN Some("Provide a csnades.gg URL or 3 screenshots")
  ELSE IF ~Falsy(form.csnades_url) /\ UrlHostname(form.csnades_url[1]) = None
  THEN Some("Invalid URL format")
  ELSE IF /\ ~Falsy(form.csnades_url)
          /\ UrlHostname(form.csnades_url[1])[1]
               \notin {"csnades.gg", "www.csnades.gg"}
  THEN Some("URL must be from csnades.gg")
  ELSE IF HasScreenshots(form) /\ Falsy(form.map)
  THEN Some("Map name is required with screenshots")
  ELSE IF ~Falsy(form.map) /\ form.map[1] \notin VALID_MAPS
  THEN Some("Invalid map name")
  ELSE IF ~Falsy(form.side) /\ form.side[1] \notin VALID_SIDES
  THEN Some("Invalid side value")
  ELSE IF HasScreenshots(form) /\ Blank(form.lineup_name)
  THEN Some("Lineup name is required with screenshots")
  ELSE IF HasScreenshots(form) /\ Blank(form.stand_desc)
  THEN Some("Stand description is required with screenshots")
  ELSE IF HasScreenshots(form) /\ Blank(form.aim_desc)
  THEN Some("Aim description is required with screenshots")
  ELSE IF /\ HasScreenshots(form)
          /\ (Falsy(form.throw_type) \/ form.throw_type[1] \notin VALID_THROW_TYPES)
  THEN Some("Valid throw type is required with screenshots")
  ELSE IF HasScreenshots(form) THEN FileError(form, 1)
  ELSE None

\* the payload stored in column data
IntakeData(form) ==
  IF HasScreenshots(form)
  THEN [hasScreenshots |-> TRUE,
        lineup_name |-> Trim(form.lineup_name[1]),
        stand_desc |-> Trim(form.stand_desc[1]),
        aim_desc |-> Trim(form.aim_desc[1]),
        throw_type |-> form.throw_type[1]]
  ELSE [hasScreenshots |-> FALSE]

\* lines 234-241: the files written, one per screenshot that is a file
\* with size > 0, under its fixed name
StagedNames(form) ==
  { n \o ".jpg" : n \in { ScreenshotNames[k] : k \in
      { j \in 1..Len(ScreenshotNames) :
          LET f == FieldOf(form, ScreenshotNames[j])
          IN  f # None /\ f[1].file /\ f[1].size > 0 } } }

\* POST /api/submissions, the file system accepting every write
Submit(form) ==
  LET err == IntakeError(form)
      id == NextRowId(submissions, sqlite_sequence)
  IN  /\ sqlite_sequence < MaxSubmissions
      /\ IF err # None
         THEN /\ resp' = Response("submit", 400, [error |-> err[1]], None)
              /\ UNCHANGED << submissions, sqlite_sequence, staging >>
         ELSE /\ submissions' =
                   InsertSubmission(submissions, sqlite_sequence,
                                    form.csnades_url, form.map, form.side,
                                    IntakeData(form), now)
              /\ sqlite_sequence' = id
              /\ staging' =
                   IF HasScreenshots(form)
                   THEN WriteFiles(staging, IntakeStagingDir(id),
                                   StagedNames(form))
                   ELSE staging
              /\ resp' = Response("submit", 200, [ok |-> TRUE, id |-> id], None)
      /\ UNCHANGED << accountVars, now, raceVars, hashVars, reportVars, nadesVars >>

\* ---------------------------------------------------------------------
\* Review (admin pages/api/review), both revisions of the endpoint
\* ---------------------------------------------------------------------
\* !id
IdFalsy(idf) == idf = None \/ idf = Some(0)

\* a check that accepts every status that is present
StatusSupported_any(statusf, supported) == statusf # None

\* [...].includes(status)
StatusSupported(statusf, supported) ==
  statusf # None /\ statusf[1] \in supported

\* the handler with the status values it supports
ReviewWith(idf, statusf, supported) ==
  /\ IF IdFalsy(idf) \/ ~StatusSupported(statusf, supported)
     THEN /\ resp' = Response("review", 400, [error |-> "Invalid data"], None)
          /\ UNCHANGED << submissions, staging >>
     ELSE IF statusf[1] = "deleted"
     THEN /\ staging' = RemoveTree(staging, ReviewStagingDir(idf[1]))
          /\ submissions' = DeleteSubmission(submissions, idf[1])
          /\ resp' = Response("review", 200, [ok |-> TRUE], None)
     ELSE LET u == UpdateReview(submissions, idf[1], statusf[1], now)
          IN  /\ submissions' = u.rows
              /\ resp' = IF u.ok
                         THEN Response("review", 200, [ok |-> TRUE], None)
                         ELSE Response("review", 500, [error |-> u.error], None)
              /\ UNCHANGED staging
  /\ UNCHANGED << accountVars, sqlite_sequence, now, raceVars, hashVars, reportVars, nadesVars >>

\* POST /api/review: approved, rejected, deleted
Review(idf, statusf) ==
  ReviewWith(idf, statusf, {"approved", "rejected", "deleted"})

\* POST /api/review of the revision without deletion
ReviewNarrow(idf, statusf) ==
  ReviewWith(idf, statusf, {"approved", "rejected"})

\* ---------------------------------------------------------------------
\* The moderation subsystem, one request at a time
\* ---------------------------------------------------------------------
UrlForm ==
  [csnades_url |-> Some("https://csnades.gg/nades/1"), map |-> None,
   side |-> None, position |-> None, aim |-> None, result |-> None,
   lineup_name |-> None, stand_desc |-> None, aim_desc |-> None,
   throw_type |-> None]

ShotsForm ==
  [csnades_url |-> None, map |-> Some("mirage"), side |-> Some("t"),
   position |-> Some(File(1)), aim |-> Some(File(1)),
   result |-> Some(File(MAX_FILE_SIZE)),
   lineup_name |-> Some(<< 32, 97 >>), stand_desc |-> Some(<< 97 >>),
   aim_desc |-> Some(<< 97 >>), throw_type |-> Some("left")]

\* the requests of a moderation run: a URL, a full screenshot set, an
\* empty form, a screenshot above the size limit
ModerationForms ==
  { UrlForm, ShotsForm,
    [UrlForm EXCEPT !.csnades_url = None],
    [ShotsForm EXCEPT !.result = Some(File(MAX_FILE_SIZE + 1))] }

\* the id field of a review request: absent, 0, an identifier that was
\* or may be assigned, one that never is
ReviewIds == {None} \cup { Some(n) : n \in 0..(MaxSubmissions + 1) }

StatusFields ==
  {None} \cup { Some(s) : s \in {"approved", "rejected", "deleted", "pending"} }

NextModeration ==
  \/ \E form \in ModerationForms : Submit(form)
  \/ \E i \in ReviewIds, s \in StatusFields : Review(i, s)
  \/ \E i \in ReviewIds, s \in StatusFields : ReviewNarrow(i, s)
  \/ Tick

SpecModeration == Init /\ [][NextModeration]_vars

\* ---------------------------------------------------------------------
\* Statements run on the store directly, as the schema tests do
\* ---------------------------------------------------------------------
\* a status column whose CHECK also lists 'deleted'
StatusAllowed_withDeleted(s) == s \in {"pending", "approved", "rejected", "deleted"}

\* status TEXT NOT NULL DEFAULT 'pending' CHECK (status IN (...))
StatusAllowed(s) == s \in StoredStatuses

\* the status values of a direct insert: column omitted, or a value
RawStatuses ==
  {None} \cup
  { Some(s) : s \in {"pending", "approved", "rejected", "deleted", "invalid"} }

\* INSERT INTO submissions (status, map_name) VALUES (?, 'mirage'), and
\* INSERT INTO submissions (csnades_url, map_name) VALUES (...) when the
\* status column is omitted
RawInsertSubmission(statusf) ==
  LET status == IF statusf = None THEN "pending" ELSE statusf[1]
      id == NextRowId(submissions, sqlite_sequence)
  IN  /\ sqlite_sequence < MaxSubmissions
      /\ IF StatusAllowed(status)
         THEN /\ submissions' =
                   Append(submissions,
                          [id |-> id, status |-> status, csnades_url |-> None,
                           slug |-> None, map_name |-> Some("mirage"),
                           side |-> None, data |-> None,
                           submitted_at |-> now, reviewed_at |-> None])
              /\ sqlite_sequence' = id
              /\ resp' = Response("insert", 200, [error |-> ""], None)
         ELSE /\ resp' = Response("insert", 500,
                                  [error |-> "SQLITE_CONSTRAINT_CHECK"], None)
              /\ UNCHANGED << submissions, sqlite_sequence >>
      /\ UNCHANGED << accountVars, staging, now, raceVars, hashVars, reportVars, nadesVars >>

\* moderation together with direct writes of the status column
NextStatus ==
  \/ \E form \in ModerationForms : Submit(form)
  \/ \E i \in ReviewIds, s \in StatusFields : Review(i, s)
  \/ \E i \in ReviewIds, s \in StatusFields : ReviewNarrow(i, s)
  \/ \E s \in RawStatuses : RawInsertSubmission(s)

SpecStatus == Init /\ [][NextStatus]_vars

\* ---------------------------------------------------------------------
\* Properties of the account and bookmark subsystem (checked under Spec)
\* ---------------------------------------------------------------------
\* the number of Bookmark rows of the pair (h, s)
RowsOf(tbl, h, s) ==
  BagCardinality([ r \in { q \in Rows(tbl) : q.account_hash = h /\ q.slug = s }
                     |-> tbl[r] ])

\* C1: for an identifier h that has an Account row, a toggle of (h, s)
\* succeeds, answers bookmarked=true exactly when the pair was not
\* bookmarked before (so a second toggle answers false), and the flag it
\* answers equals the presence of the row afterwards.
C1_TrueToggle ==
  [][ \A c \in CookieValues, f \in SlugFields :
        LET hash == getAccountHash(c)
        IN  ( /\ resp'.op = "toggle"
              /\ hash # None
              /\ ~Falsy(f)
              /\ AccountExists(accounts, hash[1])
              /\ Toggle(c, f) )
            => /\ resp'.status = 200
               /\ resp'.body.bookmarked = (RowsOf(bookmarks, hash[1], f[1]) = 0)
               /\ resp'.body.bookmarked = (RowsOf(bookmarks', hash[1], f[1]) = 1)
    ]_vars

\* a second toggle has answered bookmarked=false and removed the row
C1_Witness ==
  /\ resp.op = "toggle"
  /\ resp.status = 200
  /\ resp.body.bookmarked = FALSE
  /\ bookmarks = EmptyBag
  /\ accounts # EmptyBag

\* C2: the bookmark table never holds two rows for one (identifier,
\* slug) pair, and a direct insert of a pair that is present fails with
\* an integrity error and leaves the table unchanged.
C2_BookmarkUnique ==
  /\ [](\A h \in CookieHashes, s \in Slugs :
          RowsOf(bookmarks, h, s) <= 1)
  /\ [][ \A h \in CookieHashes, s \in Slugs :
           (RawInsertBookmark(h, s) /\ RowsOf(bookmarks, h, s) # 0)
           => /\ resp'.status = 500
              /\ resp'.body.error = "SQLITE_CONSTRAINT_PRIMARYKEY"
              /\ bookmarks' = bookmarks
       ]_vars

\* a direct insert of a present pair has been refused
C2_Witness ==
  /\ resp.op = "insert"
  /\ resp.status = 500
  /\ resp.body.error = "SQLITE_CONSTRAINT_PRIMARYKEY"
  /\ bookmarks # EmptyBag

\* the number of Account rows of the identifier h
AccountRows(tbl, h) ==
  BagCardinality([ r \in { q \in Rows(tbl) : q.hash = h } |-> tbl[r] ])

\* C4: an accepted login leaves exactly one Account row for its
\* identifier, adds no row when the identifier is already known, and
\* issues in the cookie the identifier of the nickname whatever the
\* state of the store.
C4_LoginIdempotent ==
  [][ \A f \in NicknameFields :
        (Login(f) /\ resp'.status = 200)
        => /\ resp'.set_cookie = Some(hashNickname(f[1]))
           /\ AccountRows(accounts', resp'.set_cookie[1]) = 1
           /\ AccountExists(accounts, resp'.set_cookie[1])
                => accounts' = accounts
           /\ BagCardinality(accounts') <= BagCardinality(accounts) + 1
    ]_vars

\* a login for an identifier whose Account row is older than the request
C4_Witness ==
  /\ resp.op = "login"
  /\ resp.status = 200
  /\ \E r \in Rows(accounts) :
       /\ r.hash = resp.set_cookie[1]
       /\ r.created_at < now

\* C6: a login whose nickname is missing or has fewer than 3 characters
\* after trimming is answered 400, creates no Account row and sets no cookie.
C6_ShortNicknameRejected ==
  [][ \A f \in NicknameFields :
        (Login(f) /\ (f = None \/ Len(Trim(f[1])) < 3))
        => /\ resp'.status = 400
           /\ resp'.set_cookie = None
           /\ accounts' = accounts
    ]_vars

\* a login has been rejected while the store holds accounts
C6_Witness ==
  /\ resp.op = "login"
  /\ resp.status = 400
  /\ resp.set_cookie = None
  /\ accounts # EmptyBag

\* C7: every Bookmark row refers to an existing Account row; a toggle
\* under a well-formed identifier without Account row creates no row;
\* no step removes an Account row.
C7_BookmarkReferencesAccount ==
  /\ [](\A r \in Rows(bookmarks) : AccountExists(accounts, r.account_hash))
  /\ [][ /\ \A c \in CookieValues, f \in SlugFields :
              LET hash == getAccountHash(c)
              IN  ( /\ resp'.op = "toggle"
                    /\ hash # None
                    /\ ~AccountExists(accounts, hash[1])
                    /\ Toggle(c, f) )
                  => bookmarks' = bookmarks
         /\ \A r \in Rows(accounts) : AccountExists(accounts', r.hash)
       ]_vars

\* a toggle under an unknown identifier has been refused by the store
C7_Witness ==
  /\ resp.op = "toggle"
  /\ resp.status = 500
  /\ resp.body.error = "SQLITE_CONSTRAINT_FOREIGNKEY"
  /\ accounts # EmptyBag

\* ---------------------------------------------------------------------
\* Properties of the identity hasher (checked under SpecHash)
\* ---------------------------------------------------------------------
\* the normalized form of a nickname: trimmed, then lowercased
NormalForm(n) == ToLowerCase(Trim(n))

\* the nicknames that are other spellings of nickname a
Respellings(a) == { b \in Nicknames : NormalForm(b) = NormalForm(a) }

\* C5: the identifier of a nickname is 64 lowercase hexadecimal
\* characters; every other spelling of the nickname gets the same
\* identifier and every nickname with another normalized form a different
\* one; and logins under two spellings are served under one identifier.
C5_HashOfNormalForm ==
  hout # None =>
    LET a == hin[1]
        ha == hout[1].hash
    IN  /\ Len(ha) = 64
        /\ \A i \in 1..Len(ha) : IsHexChar(ha[i])
        /\ \A b \in Respellings(a) :
             /\ hashNickname(b) = ha
             /\ loginIdentifier(Some(b)) = hout[1].login
        /\ \A m \in Messages : m # NormalForm(a) => hashNickname(m) # ha
        /\ hout[1].login # None => hout[1].login = Some(ha)

\* a nickname with capitals and surrounding space that login accepts has
\* been hashed
C5_Witness ==
  /\ hout # None
  /\ hin[1] # NormalForm(hin[1])
  /\ Trim(hin[1]) # hin[1]
  /\ hout[1].login # None

\* ---------------------------------------------------------------------
\* Properties of concurrent toggles (checked under SpecToggleRace)
\* ---------------------------------------------------------------------
\* both connections have answered a toggle of the pair (h, s), and each
\* request was accepted before the other one answered
ConcurrentPair(h, s) ==
  \A c \in Conns :
    /\ reqs[c].pc = "done"
    /\ ~reqs[c].after_peer
    /\ reqs[c].hash = Some(h)
    /\ reqs[c].field = Some(s)

\* the outcome of two concurrent toggles of the pair (h, s)
RaceOutcome(h, s) ==
  /\ \A c \in Conns : reqs[c].status = 200
  /\ { reqs[c].body.bookmarked : c \in Conns } = {TRUE, FALSE}
  /\ SelectBookmark(bookmarks, h, s) = SelectBookmark(round0.bookmarks, h, s)
  /\ RowsOf(bookmarks, h, s) <= 1

\* C3: for an identifier that has an Account row when the requests are
\* accepted, two concurrent toggles of one (identifier, slug) pair both
\* succeed in every interleaving, one answers bookmarked=true and the
\* other bookmarked=false, and the pair is present afterwards exactly
\* when it was present before both.
C3_ConcurrentTogglesAtomic ==
  \A h \in CookieHashes, s \in Slugs :
    (ConcurrentPair(h, s) /\ AccountExists(round0.accounts, h))
    => RaceOutcome(h, s)

\* two concurrent toggles of a pair that was bookmarked have both answered
C3_Witness ==
  \E h \in CookieHashes, s \in Slugs :
    /\ ConcurrentPair(h, s)
    /\ AccountExists(round0.accounts, h)
    /\ SelectBookmark(round0.bookmarks, h, s)
    /\ \A c \in Conns : reqs[c].status = 200

\* C3 as stated, for every identifier a cookie can carry: two concurrent
\* toggles of one pair never fail, one answers true and the other false,
\* and the presence of the pair is what it was before both.
C3_AsStated ==
  \A h \in CookieHashes, s \in Slugs :
    ConcurrentPair(h, s) => RaceOutcome(h, s)


\* ---------------------------------------------------------------------
\* Properties of moderation (checked under SpecModeration)
\* ---------------------------------------------------------------------
\* the row of submission n in table tbl, as a set of at most one row
RowOf(tbl, n) == { tbl[i] : i \in { j \in 1..Len(tbl) : tbl[j].id = n } }

\* C8: the only status changes a step makes are pending -> approved and
\* pending -> rejected, and a row that is approved or rejected keeps its
\* status and its review timestamp for as long as it exists.
C8_DecidedOnce ==
  [][ \A n \in 1..MaxSubmissions :
        \A r \in RowOf(submissions, n) : \A q \in RowOf(submissions', n) :
          /\ r.status = "pending" => q.status \in StoredStatuses
          /\ r.status # "pending" =>
               (q.status = r.status /\ q.reviewed_at = r.reviewed_at)
    ]_vars

\* C9: in every reachable state the review timestamp of a Submission row
\* is null exactly when its status is pending, so no state shows a row
\* with only one of the two written.
C9_StatusAndTimestampTogether ==
  \A i \in 1..Len(submissions) :
    (submissions[i].reviewed_at = None) <=> (submissions[i].status = "pending")

\* a decided row, reviewed after it was submitted, next to a pending one
C9_Witness ==
  /\ \E i \in 1..Len(submissions) :
       /\ submissions[i].status = "rejected"
       /\ submissions[i].reviewed_at # None
       /\ submissions[i].reviewed_at[1] > submissions[i].submitted_at
  /\ \E i \in 1..Len(submissions) : submissions[i].status = "pending"

\* C10: a review request with status deleted for identifier n is answered
\* ok and leaves neither a Submission row n nor a staging directory of n,
\* whatever the status of n; when there was neither, it changes nothing.
C10_DeleteRemovesRowAndStaging ==
  [][ \A n \in 1..(MaxSubmissions + 1) :
        Review(Some(n), Some("deleted")) =>
          /\ resp'.status = 200
          /\ n \notin SubmissionIds(submissions')
          /\ \A d \in DOMAIN staging' : ~IsPrefix(IntakeStagingDir(n), d)
          /\ ( /\ n \notin SubmissionIds(submissions)
               /\ IntakeStagingDir(n) \notin DOMAIN staging )
             => (submissions' = submissions /\ staging' = staging)
    ]_vars

\* submission 1 and its staging directory are gone after a delete, while
\* submission 2 and its directory are in place
C10_Witness ==
  /\ resp.op = "review"
  /\ resp.status = 200
  /\ sqlite_sequence = 2
  /\ SubmissionIds(submissions) = {2}
  /\ DOMAIN staging = {IntakeStagingDir(2)}


\* ---------------------------------------------------------------------
\* Properties of the status column (checked under SpecStatus)
\* ---------------------------------------------------------------------
\* C11: every stored Submission row has status pending, approved or
\* rejected; the row an accepted intake adds is pending; the value
\* deleted is never stored (a delete removes the row); and a direct write
\* of any other status value is refused by the store, the table unchanged.
C11_StatusEnumerated ==
  /\ [](\A i \in 1..Len(submissions) :
          submissions[i].status \in {"pending", "approved", "rejected"})
  /\ [][ /\ \A form \in ModerationForms :
              (resp'.op = "submit" /\ Submit(form) /\ resp'.status = 200)
              => /\ Len(submissions') = Len(submissions) + 1
                 /\ submissions'[Len(submissions')].status = "pending"
         /\ \A n \in 1..(MaxSubmissions + 1) :
              (resp'.op = "review" /\ Review(Some(n), Some("deleted")))
              => \A i \in 1..Len(submissions') : submissions'[i].id # n
         /\ \A s \in {"deleted", "invalid"} :
              (resp'.op = "insert" /\ RawInsertSubmission(Some(s)))
              => /\ resp'.status = 500
                 /\ submissions' = submissions
       ]_vars

\* a direct write of a status outside the enumeration has been refused
\* while a row decided by a review is stored
C11_Witness ==
  /\ resp.op = "insert"
  /\ resp.status = 500
  /\ \E i \in 1..Len(submissions) :
       /\ submissions[i].status = "approved"
       /\ submissions[i].reviewed_at # None


\* ---------------------------------------------------------------------
\* Properties of review validation (checked under SpecModeration)
\* ---------------------------------------------------------------------
\* the request is one the endpoint must refuse: no identifier, an
\* identifier of no stored row, or a status outside the supported ones
ReviewMustFail(idf, statusf, supported) ==
  \/ IdFalsy(idf)
  \/ idf[1] \notin SubmissionIds(submissions)
  \/ statusf = None
  \/ statusf[1] \notin supported

\* C12: a review request whose identifier is missing or matches no
\* Submission row, or whose status the endpoint does not support, is
\* answered with a client error and changes no Submission row and nothing
\* in the staging area.
C12_InvalidReviewRejected ==
  [][ \A i \in ReviewIds, s \in StatusFields :
        /\ ( /\ resp'.op = "review"
             /\ ReviewMustFail(i, s, {"approved", "rejected", "deleted"})
             /\ Review(i, s) )
           => /\ resp'.status \in 400..499
              /\ submissions' = submissions
              /\ staging' = staging
        /\ ( /\ resp'.op = "review"
             /\ ReviewMustFail(i, s, {"approved", "rejected"})
             /\ ReviewNarrow(i, s) )
           => /\ resp'.status \in 400..499
              /\ submissions' = submissions
              /\ staging' = staging
    ]_vars

\* ---------------------------------------------------------------------
\* Intake and review step by step: a handler runs from one `await` to
\* the next, the store statements in between are synchronous
\* ---------------------------------------------------------------------
\* the screenshot written at position k of the loop of lines 234-241
WrittenAt(form, k) ==
  LET f == FieldOf(form, ScreenshotNames[k])
  IN  IF f # None /\ f[1].file /\ f[1].size > 0
      THEN {ScreenshotNames[k] \o ".jpg"}
      ELSE {}

\* the submissions whose row is not inserted yet
IntakesInFlight ==
  Cardinality({ c \in Conns : reqs[c].pc = "formData" })

\* line 112: the handler is suspended reading the multipart body
IntakeBegin(c, form) ==
  /\ reqs[c].pc = "idle"
  /\ sqlite_sequence + IntakesInFlight < MaxSubmissions
  /\ reqs' = [reqs EXCEPT ![c] =
        [pc |-> "formData", form |-> form, id |-> 0, k |-> 0,
         status |-> 0, body |-> None]]
  /\ UNCHANGED << accountVars, moderationVars, now, resp, round0, hashVars, reportVars, nadesVars >>

\* lines 113-232: the checks, the INSERT, and the call of mkdir
IntakeValidate(c) ==
  LET q == reqs[c]
      err == IntakeError(q.form)
      id == NextRowId(submissions, sqlite_sequence)
  IN  /\ q.pc = "formData"
      /\ IF err # None
         THEN /\ reqs' = [reqs EXCEPT ![c] =
                   [q EXCEPT !.pc = "done", !.status = 400,
                             !.body = [error |-> err[1]]]]
              /\ UNCHANGED << submissions, sqlite_sequence >>
         ELSE /\ submissions' =
                   InsertSubmission(submissions, sqlite_sequence,
                                    q.form.csnades_url, q.form.map,
                                    q.form.side, IntakeData(q.form), now)
              /\ sqlite_sequence' = id
              /\ reqs' = [reqs EXCEPT ![c] =
                   IF HasScreenshots(q.form)
                   THEN [q EXCEPT !.pc = "mkdir", !.id = id]
                   ELSE [q EXCEPT !.pc = "done", !.id = id, !.status = 200,
                                  !.body = [ok |-> TRUE, id |-> id]]]
      /\ UNCHANGED << accountVars, staging, now, resp, round0, hashVars, reportVars, nadesVars >>

\* line 232: the directory is there, the handler goes on to the files
IntakeMkdir(c) ==
  LET q == reqs[c]
  IN  /\ q.pc = "mkdir"
      /\ staging' = WriteFiles(staging, IntakeStagingDir(q.id), {})
      /\ reqs' = [reqs EXCEPT ![c] = [q EXCEPT !.pc = "write", !.k = 1]]
      /\ UNCHANGED << accountVars, submissions, sqlite_sequence, now, resp,
                      round0, hashVars, reportVars, nadesVars >>

\* lines 234-246: one turn of the loop, and the response after the last
IntakeWrite(c) ==
  LET q == reqs[c]
  IN  /\ q.pc = "write"
      /\ staging' = WriteFiles(staging, IntakeStagingDir(q.id),
                               WrittenAt(q.form, q.k))
      /\ reqs' = [reqs EXCEPT ![c] =
            IF q.k < Len(ScreenshotNames)
            THEN [q EXCEPT !.k = q.k + 1]
            ELSE [q EXCEPT !.pc = "done", !.status = 200,
                           !.body = [ok |-> TRUE, id |-> q.id]]]
      /\ UNCHANGED << accountVars, submissions, sqlite_sequence, now, resp,
                      round0, hashVars, reportVars, nadesVars >>

\* a failure handler that undoes the insert and removes the directory
IntakeFsError_rollback(c) ==
  LET q == reqs[c]
  IN  /\ q.pc \in {"mkdir", "write"}
      /\ submissions' = DeleteSubmission(submissions, q.id)
      /\ staging' = RemoveTree(staging, IntakeStagingDir(q.id))
      /\ reqs' = [reqs EXCEPT ![c] =
            [q EXCEPT !.pc = "done", !.status = 500,
                      !.body = [error |-> "Internal Server Error"]]]
      /\ UNCHANGED << accountVars, sqlite_sequence, now, resp, round0,
                      hashVars, reportVars, nadesVars >>

\* mkdir or writeFile rejects: the exception leaves the handler, the
\* request is answered 500
IntakeFsError(c) ==
  LET q == reqs[c]
  IN  /\ q.pc \in {"mkdir", "write"}
      /\ reqs' = [reqs EXCEPT ![c] =
            [q EXCEPT !.pc = "done", !.status = 500,
                      !.body = [error |-> "Internal Server Error"]]]
      /\ UNCHANGED << accountVars, moderationVars, now, resp, round0,
                      hashVars, reportVars, nadesVars >>

\* review.ts line 7: the handler is suspended reading the JSON body
ReviewBegin(c, idf, statusf) ==
  /\ reqs[c].pc = "idle"
  /\ reqs' = [reqs EXCEPT ![c] =
        [pc |-> "json", idf |-> idf, statusf |-> statusf,
         status |-> 0, body |-> None]]
  /\ UNCHANGED << accountVars, moderationVars, now, resp, round0, hashVars, reportVars, nadesVars >>

\* review.ts lines 9-21 and 25-30: the check, then the UPDATE and the
\* response, or the call of rm
ReviewCheck(c) ==
  LET q == reqs[c]
  IN  /\ q.pc = "json"
      /\ IF \/ IdFalsy(q.idf)
            \/ ~StatusSupported(q.statusf, {"approved", "rejected", "deleted"})
         THEN /\ reqs' = [reqs EXCEPT ![c] =
                   [q EXCEPT !.pc = "done", !.status = 400,
                             !.body = [error |-> "Invalid data"]]]
              /\ UNCHANGED submissions
         ELSE IF q.statusf[1] = "deleted"
         THEN /\ reqs' = [reqs EXCEPT ![c] = [q EXCEPT !.pc = "rm"]]
              /\ UNCHANGED submissions
         ELSE LET u == UpdateReview(submissions, q.idf[1], q.statusf[1], now)
              IN  /\ submissions' = u.rows
                  /\ reqs' = [reqs EXCEPT ![c] =
                       IF u.ok
                       THEN [q EXCEPT !.pc = "done", !.status = 200,
                                      !.body = [ok |-> TRUE]]
                       ELSE [q EXCEPT !.pc = "done", !.status = 500,
                                      !.body = [error |-> u.error]]]
      /\ UNCHANGED << accountVars, sqlite_sequence, staging, now, resp,
                      round0, hashVars, reportVars, nadesVars >>

\* review.ts line 21: the directory tree is removed
ReviewRm(c) ==
  LET q == reqs[c]
  IN  /\ q.pc = "rm"
      /\ staging' = RemoveTree(staging, ReviewStagingDir(q.idf[1]))
      /\ reqs' = [reqs EXCEPT ![c] = [q EXCEPT !.pc = "delete"]]
      /\ UNCHANGED << accountVars, submissions, sqlite_sequence, now, resp,
                      round0, hashVars, reportVars, nadesVars >>

\* review.ts line 21: rm rejects (force covers only a missing path)
ReviewFsError(c) ==
  LET q == reqs[c]
  IN  /\ q.pc = "rm"
      /\ reqs' = [reqs EXCEPT ![c] =
            [q EXCEPT !.pc = "done", !.status = 500,
                      !.body = [error |-> "Internal Server Error"]]]
      /\ UNCHANGED << accountVars, moderationVars, now, resp, round0,
                      hashVars, reportVars, nadesVars >>

\* review.ts lines 23-30: the DELETE and the response
ReviewDelete(c) ==
  LET q == reqs[c]
  IN  /\ q.pc = "delete"
      /\ submissions' = DeleteSubmission(submissions, q.idf[1])
      /\ reqs' = [reqs EXCEPT ![c] =
            [q EXCEPT !.pc = "done", !.status = 200, !.body = [ok |-> TRUE]]]
      /\ UNCHANGED << accountVars, sqlite_sequence, staging, now, resp,
                      round0, hashVars, reportVars, nadesVars >>

\* the response is delivered, the connection is free
RequestEnd(c) ==
  /\ reqs[c].pc = "done"
  /\ reqs' = [reqs EXCEPT ![c] = IdleReq]
  /\ UNCHANGED << accountVars, moderationVars, now, resp, round0, hashVars, reportVars, nadesVars >>

\* the process stops and is started again: the requests in flight and
\* the dataset cache are lost, the store and the file system stay as they are
Crash ==
  /\ \E c \in Conns : reqs[c].pc \notin {"idle", "done"}
  /\ reqs' = [c \in Conns |-> IdleReq]
  /\ cache' = None
  /\ fileReads' = 0
  /\ UNCHANGED << accountVars, moderationVars, now, resp, round0, hashVars,
                  reportVars, nadesFile, loaded >>

\* ---------------------------------------------------------------------
\* Intake alone: one connection, requests that break the rules of the
\* handler one or two at a time
\* ---------------------------------------------------------------------
\* a URL together with a full screenshot set
BothForm == [ShotsForm EXCEPT !.csnades_url = UrlForm.csnades_url]

FormFields ==
  {"csnades_url", "map", "side", "position", "aim", "result",
   "lineup_name", "stand_desc", "aim_desc", "throw_type"}

\* the values a field of a request is replaced with
FieldValues(name) ==
  CASE name = "csnades_url" ->
         {None, Some(""), Some("not a url"),
          Some("https://csnades.gg.example.org/nades/1")}
    [] name = "map" -> {None, Some("cache")}
    [] name = "side" -> {Some("x")}
    [] name = "position" ->
         {None, Some(File(0)), Some(File(MAX_FILE_SIZE + 1)), Some(Text("abc"))}
    [] name = "aim" ->
         {Some(File(0)), Some(File(MAX_FILE_SIZE + 1)), Some(Text(""))}
    [] name = "result" -> {None, Some(File(MAX_FILE_SIZE + 1))}
    [] name = "lineup_name" -> {None, Some(<< 32 >>)}
    [] name = "stand_desc" -> {Some(<< 32 >>)}
    [] name = "aim_desc" -> {None}
    [] name = "throw_type" -> {None, Some("sideways")}

\* the forms that differ from a form of F in one field
Varied(F) ==
  UNION { { [form EXCEPT ![name] = v] : v \in FieldValues(name) } :
          form \in F, name \in FormFields }

\* a URL, a screenshot set, or both, with up to two fields replaced, and
\* a URL on the www host
IntakeForms ==
  LET bases == {UrlForm, ShotsForm, BothForm}
  IN  bases \cup Varied(bases) \cup Varied(Varied(bases))
      \cup {[UrlForm EXCEPT !.csnades_url = Some("https://www.csnades.gg/nades/1")]}

NextIntake ==
  \/ \E form \in IntakeForms : IntakeBegin("a", form)
  \/ IntakeValidate("a")
  \/ IntakeMkdir("a")
  \/ IntakeWrite("a")
  \/ RequestEnd("a")

SpecIntake == InitRace /\ [][NextIntake]_vars

\* ---------------------------------------------------------------------
\* Properties of submission intake (checked under SpecIntake)
\* ---------------------------------------------------------------------
\* the request on connection c is answered with a client error, and the
\* step that answers it adds no row and touches no staging path
Refused(c) ==
  /\ reqs'[c].pc = "done"
  /\ reqs'[c].status \in 400..499
  /\ submissions' = submissions
  /\ sqlite_sequence' = sqlite_sequence
  /\ staging' = staging

\* a screenshot field that is an empty file, an empty value, or a file
\* above 10 MiB
BadScreenshot(field) ==
  /\ field # None
  /\ \/ field[1].file /\ field[1].size = 0
     \/ ~field[1].file /\ field[1].text = ""
     \/ field[1].file /\ field[1].size > 10 * 1024 * 1024

\* some screenshot field is present
AnyScreenshot(form) ==
  form.position # None \/ form.aim # None \/ form.result # None

\* the defects of a request that hold whatever else it carries
UrlOrMapDefect(form) ==
  \/ Falsy(form.csnades_url) /\ ~HasScreenshots(form)
  \/ ~Falsy(form.csnades_url) /\ UrlHostname(form.csnades_url[1]) = None
  \/ /\ ~Falsy(form.csnades_url)
     /\ UrlHostname(form.csnades_url[1]) # None
     /\ UrlHostname(form.csnades_url[1])[1] \notin {"csnades.gg", "www.csnades.gg"}
  \/ ~Falsy(form.map) /\ form.map[1] \notin VALID_MAPS

\* the defects of the descriptive fields
DescriptionDefect(form) ==
  \/ Blank(form.lineup_name)
  \/ Blank(form.stand_desc)
  \/ Blank(form.aim_desc)
  \/ Falsy(form.throw_type)
  \/ form.throw_type[1] \notin VALID_THROW_TYPES

\* C13: intake answers with a client error, inserts no Submission row
\* and creates no staging directory or file for every request that has
\* neither a URL nor all three screenshots, a malformed URL, a URL on
\* another host, a map name outside the supported set, or, when all three
\* screenshot fields are present, no map name, an empty or oversized
\* screenshot, or a missing descriptive field or throw type; and a
\* request answered so writes nothing afterwards.
C13_InvalidIntakeRejected ==
  [][ \A c \in Conns :
        /\ ( /\ reqs[c].pc = "formData"
             /\ reqs'[c].pc # "formData"
             /\ \/ UrlOrMapDefect(reqs[c].form)
                \/ /\ HasScreenshots(reqs[c].form)
                   /\ \/ Falsy(reqs[c].form.map)
                      \/ BadScreenshot(reqs[c].form.position)
                      \/ BadScreenshot(reqs[c].form.aim)
                      \/ BadScreenshot(reqs[c].form.result)
                      \/ DescriptionDefect(reqs[c].form) )
           => Refused(c)
        /\ (reqs[c].pc = "done" /\ reqs[c].status = 400)
           => UNCHANGED moderationVars
    ]_vars

\* a full screenshot set with a file of 10 MiB + 1 has been refused
\* while the store holds an earlier submission
C13_Witness ==
  /\ reqs["a"].pc = "done"
  /\ reqs["a"].status = 400
  /\ HasScreenshots(reqs["a"].form)
  /\ reqs["a"].form.result = Some(File(MAX_FILE_SIZE + 1))
  /\ reqs["a"].body.error = "result screenshot exceeds 10 MB limit"
  /\ submissions # << >>

\* C13 as stated: a request is refused as soon as it carries some
\* screenshot without a map name, or some screenshot that is empty or
\* larger than 10 MiB, whether or not the set of three is complete.
C13_AsStated ==
  [][ \A c \in Conns :
        ( /\ reqs[c].pc = "formData"
          /\ reqs'[c].pc # "formData"
          /\ \/ UrlOrMapDefect(reqs[c].form)
             \/ AnyScreenshot(reqs[c].form) /\ Falsy(reqs[c].form.map)
             \/ BadScreenshot(reqs[c].form.position)
             \/ BadScreenshot(reqs[c].form.aim)
             \/ BadScreenshot(reqs[c].form.result)
             \/ HasScreenshots(reqs[c].form) /\ DescriptionDefect(reqs[c].form) )
        => Refused(c)
    ]_vars

\* a map and a side that are absent or supported
MapAndSideFine(form) ==
  /\ Falsy(form.map) \/ form.map[1] \in VALID_MAPS
  /\ Falsy(form.side) \/ form.side[1] \in {"t", "ct"}

\* a well-formed URL on the canonical domain
UrlFine(form) ==
  /\ ~Falsy(form.csnades_url)
  /\ UrlHostname(form.csnades_url[1]) \in {Some("csnades.gg"), Some("www.csnades.gg")}

\* a file of 1 byte to 10 MiB
GoodScreenshot(field) ==
  /\ field # None
  /\ field[1].file
  /\ field[1].size \in 1..(10 * 1024 * 1024)

\* the requests the handler is to accept: a URL without screenshots, or
\* a full screenshot set with map, descriptive fields and throw type
Acceptable(form) ==
  \/ /\ UrlFine(form)
     /\ ~AnyScreenshot(form)
     /\ MapAndSideFine(form)
  \/ /\ GoodScreenshot(form.position)
     /\ GoodScreenshot(form.aim)
     /\ GoodScreenshot(form.result)
     /\ Falsy(form.csnades_url) \/ UrlFine(form)
     /\ ~Falsy(form.map)
     /\ MapAndSideFine(form)
     /\ ~DescriptionDefect(form)

\* C14: the step of a request that passes validation (among them every
\* well-formed canonical URL without screenshots and every full
\* screenshot set with valid map, side and descriptive fields) appends
\* exactly one Submission row, pending and with a null review timestamp,
\* under an identifier no row had, leaves every other row as it was, and
\* the identifier of that row is the one the request returns.
C14_ValidIntakeInsertsOne ==
  /\ [][ \A c \in Conns :
           ( /\ reqs[c].pc = "formData"
             /\ reqs'[c].pc # "formData"
             /\ (IntakeError(reqs[c].form) = None \/ Acceptable(reqs[c].form)) )
           => /\ Len(submissions') = Len(submissions) + 1
              /\ SubSeq(submissions', 1, Len(submissions)) = submissions
              /\ submissions'[Len(submissions')].status = "pending"
              /\ submissions'[Len(submissions')].reviewed_at = None
              /\ submissions'[Len(submissions')].id \notin SubmissionIds(submissions)
              /\ reqs'[c].id = submissions'[Len(submissions')].id
              /\ reqs'[c].status # 400
       ]_vars
  /\ [](\A c \in Conns :
          (reqs[c].pc = "done" /\ reqs[c].status = 200)
          => reqs[c].body = [ok |-> TRUE, id |-> reqs[c].id])
  /\ [][ \A c \in Conns :
           (reqs[c].pc \in {"mkdir", "write"}) =>
             /\ submissions' = submissions
             /\ reqs'[c].id = reqs[c].id
       ]_vars

\* a screenshot submission has returned identifier 2 after a URL
\* submission had got identifier 1
C14_Witness ==
  /\ reqs["a"].pc = "done"
  /\ reqs["a"].status = 200
  /\ HasScreenshots(reqs["a"].form)
  /\ reqs["a"].body.id = 2
  /\ Len(submissions) = 2
  /\ submissions[1].csnades_url = UrlForm.csnades_url
  /\ submissions[1].data = [hasScreenshots |-> FALSE]
  /\ submissions[2].status = "pending"

\* the files a staged media set may hold
StagedFileNames == {"position.jpg", "aim.jpg", "result.jpg"}

\* every staging directory is directory N of a row N stored with a full
\* screenshot set, and holds only the three fixed names
StagingOfScreenshotRows ==
  \A dir \in DOMAIN staging :
    /\ \E i \in 1..Len(submissions) :
         /\ dir = IntakeStagingDir(submissions[i].id)
         /\ submissions[i].data.hasScreenshots
    /\ staging[dir] \subseteq StagedFileNames

\* C15: a staging directory exists for identifier N only if row N was
\* created with a full screenshot set, every file in it is position.jpg,
\* aim.jpg or result.jpg directly inside directory N, and once a
\* screenshot submission is answered 200 directory N holds all three files.
C15_StagingHoldsScreenshots ==
  /\ StagingOfScreenshotRows
  /\ \A c \in Conns :
       ( /\ reqs[c].pc = "done"
         /\ reqs[c].status = 200
         /\ HasScreenshots(reqs[c].form) )
       => /\ IntakeStagingDir(reqs[c].id) \in DOMAIN staging
          /\ staging[IntakeStagingDir(reqs[c].id)] = StagedFileNames

\* the rules of intake validation and what breaks each
RuleBroken(form, rule) ==
  CASE rule = "source" -> Falsy(form.csnades_url) /\ ~HasScreenshots(form)
    [] rule = "url" ->
         /\ ~Falsy(form.csnades_url)
         /\ \/ UrlHostname(form.csnades_url[1]) = None
            \/ UrlHostname(form.csnades_url[1])[1]
                 \notin {"csnades.gg", "www.csnades.gg"}
    [] rule = "map" ->
         \/ HasScreenshots(form) /\ Falsy(form.map)
         \/ ~Falsy(form.map) /\ form.map[1] \notin VALID_MAPS
    [] rule = "lineup_name" ->
         /\ HasScreenshots(form)
         /\ (form.lineup_name = None \/ Trim(form.lineup_name[1]) = << >>)
    [] rule = "stand_desc" ->
         /\ HasScreenshots(form)
         /\ (form.stand_desc = None \/ Trim(form.stand_desc[1]) = << >>)
    [] rule = "aim_desc" ->
         /\ HasScreenshots(form)
         /\ (form.aim_desc = None \/ Trim(form.aim_desc[1]) = << >>)
    [] rule = "throw_type" ->
         /\ HasScreenshots(form)
         /\ (Falsy(form.throw_type) \/ form.throw_type[1] \notin VALID_THROW_TYPES)
    [] rule = "side" -> ~Falsy(form.side) /\ form.side[1] \notin {"t", "ct"}
    [] rule = "files" ->
         /\ HasScreenshots(form)
         /\ \/ BadScreenshot(form.position)
            \/ BadScreenshot(form.aim)
            \/ BadScreenshot(form.result)

\* the error messages that belong to each rule
RuleMessages(rule) ==
  CASE rule = "source" -> {"Provide a csnades.gg URL or 3 screenshots"}
    [] rule = "url" -> {"Invalid URL format", "URL must be from csnades.gg"}
    [] rule = "map" -> {"Map name is required with screenshots", "Invalid map name"}
    [] rule = "lineup_name" -> {"Lineup name is required with screenshots"}
    [] rule = "stand_desc" -> {"Stand description is required with screenshots"}
    [] rule = "aim_desc" -> {"Aim description is required with screenshots"}
    [] rule = "throw_type" -> {"Valid throw type is required with screenshots"}
    [] rule = "side" -> {"Invalid side value"}
    [] rule = "files" ->
         { "Missing " \o ScreenshotNames[k] \o " screenshot" : k \in 1..3 } \cup
         { ScreenshotNames[k] \o " screenshot exceeds 10 MB limit" : k \in 1..3 }

\* the order of the rules with the side checked after the descriptive
\* fields, and with the side checked right after the map
OrderSideAfterDescription ==
  << "source", "url", "map", "lineup_name", "stand_desc", "aim_desc",
     "throw_type", "side", "files" >>

OrderSideAfterMap ==
  << "source", "url", "map", "side", "lineup_name", "stand_desc", "aim_desc",
     "throw_type", "files" >>

\* the requests that break some rule are answered 400 with a message of
\* the first rule of the order that they break
FailFast(order) ==
  \A c \in Conns :
    ( /\ reqs[c].pc = "done"
      /\ "form" \in DOMAIN reqs[c]
      /\ \E i \in 1..Len(order) : RuleBroken(reqs[c].form, order[i]) )
    => LET first == CHOOSE i \in 1..Len(order) :
                      /\ RuleBroken(reqs[c].form, order[i])
                      /\ \A j \in 1..(i - 1) : ~RuleBroken(reqs[c].form, order[j])
       IN  /\ reqs[c].status = 400
           /\ reqs[c].body.error \in RuleMessages(order[first])

\* no message belongs to two rules
MessagesDistinct(order) ==
  \A i, j \in 1..Len(order) :
    i # j => RuleMessages(order[i]) \cap RuleMessages(order[j]) = {}

\* C16: validation is fail-fast in the order source, URL, map, side,
\* lineup name, stand description, aim description, throw type, files: a
\* request that breaks several rules is answered with a message of the
\* first of them, and no two rules share a message.
C16_FailFastOrder ==
  FailFast(OrderSideAfterMap) /\ MessagesDistinct(OrderSideAfterMap)

\* a request with an unsupported side and a blank lineup name has been
\* answered with the error of the side
C16_Witness ==
  /\ reqs["a"].pc = "done"
  /\ reqs["a"].status = 400
  /\ RuleBroken(reqs["a"].form, "side")
  /\ RuleBroken(reqs["a"].form, "lineup_name")
  /\ reqs["a"].body.error = "Invalid side value"

\* C16 as stated: the side is checked after the descriptive fields.
C16_AsStated ==
  FailFast(OrderSideAfterDescription) /\ MessagesDistinct(OrderSideAfterDescription)

\* ---------------------------------------------------------------------
\* Properties of the staging area under moderation
\* ---------------------------------------------------------------------
\* C17: every staging directory is directory N of a Submission row N
\* whose status is pending or approved; there is none for a rejected
\* submission and none for a removed one.
C17_StagingOnlyForOpenRows ==
  \A dir \in DOMAIN staging :
    \E i \in 1..Len(submissions) :
      /\ dir = IntakeStagingDir(submissions[i].id)
      /\ submissions[i].status \in {"pending", "approved"}

\* every staging directory is directory N of some Submission row N
StagingHasRow ==
  \A dir \in DOMAIN staging :
    \E i \in 1..Len(submissions) : dir = IntakeStagingDir(submissions[i].id)

\* ---------------------------------------------------------------------
\* Report intake (pages/api/reports, pages/api/lineup-reports) and the
\* two report tables
\* ---------------------------------------------------------------------
\* CHECK (frame_type IN ('position', 'aim', 'result'))
FrameTypeAllowed(v) == v \in {"position", "aim", "result"}

\* CHECK (direction IN ('earlier', 'later'))
DirectionAllowed(v) == v \in {"earlier", "later"}

\* the CHECK on column reason of table lineup_reports
ReasonAllowed(v) == v \in {"outdated", "doesnt_work", "wrong_map", "other"}

\* INSERT INTO reports (slug, frame_type, direction) VALUES (?, ?, ?):
\* the three columns are NOT NULL, two carry a CHECK; id and created_at
\* take their defaults (no row of the table is ever deleted)
InsertReport(tbl, slugf, frameTypef, directionf, t) ==
  IF slugf = None \/ frameTypef = None \/ directionf = None
  THEN [ok |-> FALSE, error |-> "SQLITE_CONSTRAINT_NOTNULL", rows |-> tbl]
  ELSE IF ~FrameTypeAllowed(frameTypef[1]) \/ ~DirectionAllowed(directionf[1])
  THEN [ok |-> FALSE, error |-> "SQLITE_CONSTRAINT_CHECK", rows |-> tbl]
  ELSE [ok |-> TRUE, error |-> "",
        rows |-> Append(tbl, [id |-> Len(tbl) + 1, slug |-> slugf[1],
                              frame_type |-> frameTypef[1],
                              direction |-> directionf[1], created_at |-> t])]

\* INSERT INTO lineup_reports (slug, reason) VALUES (?, ?)
InsertLineupReport(tbl, slugf, reasonf) ==
  IF slugf = None \/ reasonf = None
  THEN [ok |-> FALSE, error |-> "SQLITE_CONSTRAINT_NOTNULL", rows |-> tbl]
  ELSE IF ~ReasonAllowed(reasonf[1])
  THEN [ok |-> FALSE, error |-> "SQLITE_CONSTRAINT_CHECK", rows |-> tbl]
  ELSE [ok |-> TRUE, error |-> "",
        rows |-> Append(tbl, [id |-> Len(tbl) + 1, slug |-> slugf[1],
                              reason |-> reasonf[1]])]

\* [...].includes(v) for a field of the JSON body
Includes(S, field) == field # None /\ field[1] \in S

\* a check that leaves the direction to the store
ReportInvalid_noDirection(slugf, frameTypef, directionf) ==
  Falsy(slugf) \/ ~Includes({"position", "aim", "result"}, frameTypef)

\* reports.ts lines 7-8
ReportInvalid(slugf, frameTypef, directionf) ==
  \/ Falsy(slugf)
  \/ ~Includes({"position", "aim", "result"}, frameTypef)
  \/ ~Includes({"earlier", "later"}, directionf)

VALID_REASONS == {"outdated", "doesnt_work", "wrong_map", "other"}

\* the rows of both report tables
ReportCount == Len(reports) + Len(lineup_reports)

\* POST /api/reports
Report(slugf, frameTypef, directionf) ==
  /\ ReportCount < MaxReports
  /\ IF ReportInvalid(slugf, frameTypef, directionf)
     THEN /\ resp' = Response("report", 400,
                              [error |-> "Invalid report data"], None)
          /\ UNCHANGED reports
     ELSE LET ins == InsertReport(reports, slugf, frameTypef, directionf, now)
          IN  /\ reports' = ins.rows
              /\ resp' = IF ins.ok
                         THEN Response("report", 200, [ok |-> TRUE], None)
                         ELSE Response("report", 500, [error |-> ins.error], None)
  /\ UNCHANGED << accountVars, moderationVars, now, raceVars, hashVars,
                  lineup_reports, nadesVars >>

\* POST /api/lineup-reports
LineupReport(slugf, reasonf) ==
  /\ ReportCount < MaxReports
  /\ IF Falsy(slugf) \/ ~Includes(VALID_REASONS, reasonf)
     THEN /\ resp' = Response("lineup-report", 400,
                              [error |-> "Invalid report data"], None)
          /\ UNCHANGED lineup_reports
     ELSE LET ins == InsertLineupReport(lineup_reports, slugf, reasonf)
          IN  /\ lineup_reports' = ins.rows
              /\ resp' = IF ins.ok
                         THEN Response("lineup-report", 200, [ok |-> TRUE], None)
                         ELSE Response("lineup-report", 500,
                                       [error |-> ins.error], None)
  /\ UNCHANGED << accountVars, moderationVars, now, raceVars, hashVars,
                  reports, nadesVars >>

\* the INSERT of the schema tests, run on the table directly
RawInsertReport(slugf, frameTypef, directionf) ==
  LET ins == InsertReport(reports, slugf, frameTypef, directionf, now)
  IN  /\ ReportCount < MaxReports
      /\ reports' = ins.rows
      /\ resp' = Response("insert", IF ins.ok THEN 200 ELSE 500,
                          [error |-> ins.error], None)
      /\ UNCHANGED << accountVars, moderationVars, now, raceVars, hashVars,
                      lineup_reports, nadesVars >>

\* the same on table lineup_reports
RawInsertLineupReport(slugf, reasonf) ==
  LET ins == InsertLineupReport(lineup_reports, slugf, reasonf)
  IN  /\ ReportCount < MaxReports
      /\ lineup_reports' = ins.rows
      /\ resp' = Response("insert-lineup", IF ins.ok THEN 200 ELSE 500,
                          [error |-> ins.error], None)
      /\ UNCHANGED << accountVars, moderationVars, now, raceVars, hashVars,
                      reports, nadesVars >>

\* the fields of a report request: absent, empty, a listed value, a
\* value that is not listed
ReportSlugFields == {None, Some(""), Some("s1")}

FrameTypeFields ==
  {None} \cup { Some(v) : v \in {"position", "aim", "result", "invalid", ""} }

DirectionFields == {None} \cup { Some(v) : v \in {"earlier", "later", "invalid"} }

ReasonFields ==
  {None} \cup
  { Some(v) : v \in {"outdated", "doesnt_work", "wrong_map", "other", "invalid"} }

NextReports ==
  \/ \E s \in ReportSlugFields, f \in FrameTypeFields, d \in DirectionFields :
       Report(s, f, d)
  \/ \E s \in ReportSlugFields, r \in ReasonFields : LineupReport(s, r)
  \/ \E s \in ReportSlugFields, f \in FrameTypeFields, d \in DirectionFields :
       RawInsertReport(s, f, d)
  \/ \E s \in ReportSlugFields, r \in ReasonFields : RawInsertLineupReport(s, r)

SpecReports == Init /\ [][NextReports]_vars

\* ---------------------------------------------------------------------
\* Properties of report intake (checked under SpecReports)
\* ---------------------------------------------------------------------
\* the field is present and not empty
Present(field) == field # None /\ field[1] # ""

\* the field holds one of the listed values
OneOf(field, S) == \E v \in S : field = Some(v)

\* the step answers with a client error and adds no report
ReportRefused ==
  /\ resp'.status \in 400..499
  /\ reports' = reports
  /\ lineup_reports' = lineup_reports

\* C18: a freshness report is inserted (one row, acknowledged with ok)
\* exactly when slug is present, frame type is position, aim or result
\* and direction is earlier or later; a broken-lineup report exactly when
\* slug is present and reason is outdated, doesnt_work, wrong_map or
\* other; every other request gets a client error and inserts nothing;
\* a direct insert of a value outside an enumeration is refused by the
\* store; and the tables hold enumerated values only.
C18_ReportsEnumerated ==
  /\ [](/\ \A i \in 1..Len(reports) :
             /\ reports[i].frame_type \in {"position", "aim", "result"}
             /\ reports[i].direction \in {"earlier", "later"}
        /\ \A i \in 1..Len(lineup_reports) :
             lineup_reports[i].reason
               \in {"outdated", "doesnt_work", "wrong_map", "other"})
  /\ [][ /\ \A s \in ReportSlugFields, f \in FrameTypeFields,
              d \in DirectionFields :
              /\ (resp'.op = "report" /\ Report(s, f, d)) =>
                   IF /\ Present(s)
                      /\ OneOf(f, {"position", "aim", "result"})
                      /\ OneOf(d, {"earlier", "later"})
                   THEN /\ resp'.status = 200
                        /\ resp'.body = [ok |-> TRUE]
                        /\ Len(reports') = Len(reports) + 1
                        /\ SubSeq(reports', 1, Len(reports)) = reports
                        /\ reports'[Len(reports')].slug = s[1]
                        /\ reports'[Len(reports')].frame_type = f[1]
                        /\ reports'[Len(reports')].direction = d[1]
                        /\ lineup_reports' = lineup_reports
                   ELSE ReportRefused
              /\ ( /\ resp'.op = "insert"
                   /\ RawInsertReport(s, f, d)
                   /\ ~( /\ OneOf(f, {"position", "aim", "result"})
                         /\ OneOf(d, {"earlier", "later"}) ) )
                 => /\ resp'.status = 500
                    /\ reports' = reports
         /\ \A s \in ReportSlugFields, r \in ReasonFields :
              /\ (resp'.op = "lineup-report" /\ LineupReport(s, r)) =>
                   IF /\ Present(s)
                      /\ OneOf(r, {"outdated", "doesnt_work", "wrong_map", "other"})
                   THEN /\ resp'.status = 200
                        /\ resp'.body = [ok |-> TRUE]
                        /\ Len(lineup_reports') = Len(lineup_reports) + 1
                        /\ SubSeq(lineup_reports', 1, Len(lineup_reports))
                             = lineup_reports
                        /\ lineup_reports'[Len(lineup_reports')].slug = s[1]
                        /\ lineup_reports'[Len(lineup_reports')].reason = r[1]
                        /\ reports' = reports
                   ELSE ReportRefused
              /\ ( /\ resp'.op = "insert-lineup"
                   /\ RawInsertLineupReport(s, r)
                   /\ ~OneOf(r, {"outdated", "doesnt_work", "wrong_map", "other"}) )
                 => /\ resp'.status = 500
                    /\ lineup_reports' = lineup_reports
       ]_vars

\* a report has been refused after another had been stored
C18_Witness ==
  /\ resp.op = "report"
  /\ resp.status = 400
  /\ Len(reports) = 1
  /\ reports[1].frame_type = "aim"
  /\ lineup_reports = << >>
  /\ nadesFile = None
  /\ cache = None
  /\ loaded = NoLoad
  /\ fileReads = 0

\* ---------------------------------------------------------------------
\* Properties of the session requests (checked under SpecSession)
\* ---------------------------------------------------------------------
\* the slugs bookmarked under identifier h
Bookmarked(tbl, h) == { s \in Slugs : RowsOf(tbl, h, s) >= 1 }

\* C19: a logout, of either kind, changes no Account row and no Bookmark
\* row, so the slugs bookmarked under every identifier are the same
\* after it as before; and an accepted login changes no Bookmark row and
\* returns exactly the slugs bookmarked under its identifier.  Together:
\* a login that follows a logout returns the slugs bookmarked before it.
C19_LogoutKeepsStore ==
  [][ /\ (resp'.op = "logout" /\ (Logout \/ LogoutGet))
         => /\ accounts' = accounts
            /\ bookmarks' = bookmarks
            /\ \A h \in CookieHashes :
                 Bookmarked(bookmarks', h) = Bookmarked(bookmarks, h)
      /\ \A f \in NicknameFields :
           (resp'.op = "login" /\ Login(f) /\ resp'.status = 200)
           => /\ resp'.body.bookmarks = Bookmarked(bookmarks, hashNickname(f[1]))
              /\ bookmarks' = bookmarks
    ]_vars

\* a login has returned both slugs of its identifier while another
\* identifier has an Account row
C19_Witness ==
  /\ resp.op = "login"
  /\ resp.status = 200
  /\ resp.body.bookmarks = Slugs
  /\ BagCardinality(accounts) = 2

\* ---------------------------------------------------------------------
\* Intake and review step by step on one connection, with file system
\* errors and crashes
\* ---------------------------------------------------------------------
NextSteps ==
  \/ \E form \in ModerationForms : IntakeBegin("a", form)
  \/ IntakeValidate("a")
  \/ IntakeMkdir("a")
  \/ IntakeWrite("a")
  \/ IntakeFsError("a")
  \/ \E i \in ReviewIds, s \in StatusFields : ReviewBegin("a", i, s)
  \/ ReviewCheck("a")
  \/ ReviewRm("a")
  \/ ReviewFsError("a")
  \/ ReviewDelete("a")
  \/ RequestEnd("a")
  \/ Crash

SpecSteps == InitRace /\ [][NextSteps]_vars

\* the identifiers that have a staging directory
StagedIds(fs) ==
  { n \in 1..(MaxSubmissions + 1) : IntakeStagingDir(n) \in DOMAIN fs }

\* C20: with one request at a time, a step that creates the staging
\* directory of N or writes a file into it finds row N in the table (the
\* INSERT came first), a step that deletes row N finds no staging
\* directory of N (rm came first), and in every state, also between the
\* steps of a request and after a crash, each staging directory is the
\* directory of an existing row.
C20_StoreThenFiles ==
  /\ [](StagingHasRow)
  /\ [][ /\ \A n \in StagedIds(staging') :
              ( \/ n \notin StagedIds(staging)
                \/ staging'[IntakeStagingDir(n)] # staging[IntakeStagingDir(n)] )
              => /\ n \in SubmissionIds(submissions)
                 /\ n \in SubmissionIds(submissions')
         /\ \A n \in SubmissionIds(submissions) \ SubmissionIds(submissions') :
              /\ n \notin StagedIds(staging)
              /\ staging' = staging
       ]_vars

\* a delete request has removed the staging directory of a screenshot
\* submission and has not deleted the row yet
C20_Witness ==
  /\ reqs["a"].pc = "delete"
  /\ \E i \in 1..Len(submissions) :
       /\ submissions[i].id = reqs["a"].idf[1]
       /\ submissions[i].data.hasScreenshots
  /\ reqs["a"].idf[1] \notin StagedIds(staging)

\* ---------------------------------------------------------------------
\* Properties of the steps of intake and review (checked under SpecSteps)
\* ---------------------------------------------------------------------
\* the row of identifier id is in the table with status pending
PendingRow(tbl, id) ==
  \E i \in 1..Len(tbl) : tbl[i].id = id /\ tbl[i].status = "pending"

\* C21: when mkdir or a file write fails after the INSERT, the request
\* is answered with a server error, the step changes no row and no
\* directory, the new row is still there with status pending, and its
\* staging directory is missing or holds only part of the three files.
C21_WriteFailureNotRolledBack ==
  [][ \A c \in Conns :
        (reqs[c].pc \in {"mkdir", "write"} /\ IntakeFsError(c))
        => /\ reqs'[c].pc = "done"
           /\ reqs'[c].status \in 500..599
           /\ submissions' = submissions
           /\ sqlite_sequence' = sqlite_sequence
           /\ staging' = staging
           /\ PendingRow(submissions', reqs[c].id)
           /\ \/ IntakeStagingDir(reqs[c].id) \notin DOMAIN staging'
              \/ /\ staging'[IntakeStagingDir(reqs[c].id)] \subseteq StagedFileNames
                 /\ staging'[IntakeStagingDir(reqs[c].id)] # StagedFileNames
    ]_vars

\* a write has failed after position.jpg was staged: the request is
\* answered 500 and the pending row has one file
C21_Witness ==
  /\ reqs["a"].pc = "done"
  /\ reqs["a"].status = 500
  /\ "form" \in DOMAIN reqs["a"]
  /\ PendingRow(submissions, reqs["a"].id)
  /\ IntakeStagingDir(reqs["a"].id) \in DOMAIN staging
  /\ staging[IntakeStagingDir(reqs["a"].id)] = {"position.jpg"}

\* ---------------------------------------------------------------------
\* Two review requests at once: the store holds screenshot submissions
\* 1..n with their staged files, both connections are free
\* ---------------------------------------------------------------------
\* the table and the staging area after n intakes of ShotsForm
RECURSIVE StoreAfterIntakes(_)
StoreAfterIntakes(n) ==
  IF n = 0 THEN [rows |-> << >>, fs |-> << >>]
  ELSE LET before == StoreAfterIntakes(n - 1)
       IN  [rows |-> InsertSubmission(before.rows, n - 1, ShotsForm.csnades_url,
                                      ShotsForm.map, ShotsForm.side,
                                      IntakeData(ShotsForm), 0),
            fs |-> WriteFiles(before.fs, IntakeStagingDir(n),
                              StagedNames(ShotsForm))]

InitReviewRace ==
  /\ accounts = EmptyBag
  /\ bookmarks = EmptyBag
  /\ \E n \in 1..MaxSubmissions :
       /\ submissions = StoreAfterIntakes(n).rows
       /\ staging = StoreAfterIntakes(n).fs
       /\ sqlite_sequence = n
  /\ now = 0
  /\ resp = NoResponse
  /\ reqs = [c \in Conns |-> IdleReq]
  /\ round0 = RoundStart(EmptyBag, EmptyBag)
  /\ hin = None
  /\ hout = None
  /\ reports = << >>
  /\ lineup_reports = << >>
  /\ nadesFile = None
  /\ cache = None
  /\ loaded = NoLoad
  /\ fileReads = 0

NextReviewRace ==
  \/ \E c \in Conns, n \in 1..MaxSubmissions,
        s \in {"approved", "rejected", "deleted"} :
       ReviewBegin(c, Some(n), Some(s))
  \/ \E c \in Conns : ReviewCheck(c)
  \/ \E c \in Conns : ReviewRm(c)
  \/ \E c \in Conns : ReviewFsError(c)
  \/ \E c \in Conns : ReviewDelete(c)
  \/ \E c \in Conns : RequestEnd(c)

SpecReviewRace == InitReviewRace /\ [][NextReviewRace]_vars


\* ---------------------------------------------------------------------
\* C22
\* ---------------------------------------------------------------------
\* store and staging area disagree about identifier n: a staging
\* directory without a row, or a row whose staged media is gone
Disagree(rows, fs, n) ==
  \/ ReviewStagingDir(n) \in DOMAIN fs /\ n \notin SubmissionIds(rows)
  \/ n \in SubmissionIds(rows) /\ ReviewStagingDir(n) \notin DOMAIN fs

\* one step of a review request applied to the store and the staging area
RaceStep(st, step, n) ==
  IF step = "rm" THEN [st EXCEPT !.fs = RemoveTree(st.fs, ReviewStagingDir(n))]
  ELSE IF step = "delete" THEN [st EXCEPT !.rows = DeleteSubmission(st.rows, n)]
  ELSE [st EXCEPT !.rows = UpdateReview(st.rows, n, "approved", now).rows]

RECURSIVE RaceRun(_, _, _)
RaceRun(st, order, n) ==
  IF order = << >> THEN st
  ELSE RaceRun(RaceStep(st, Head(order), n), Tail(order), n)

\* the orders in which the steps of a delete (rm, then DELETE) and the
\* single step of an approve (UPDATE) can follow each other
DeleteApproveOrders ==
  { << "update", "rm", "delete" >>,
    << "rm", "update", "delete" >>,
    << "rm", "delete", "update" >> }

\* a delete and an approve of the same identifier, both answered 200
BothAnswered(c, d) ==
  /\ c # d
  /\ reqs[c].pc = "done" /\ reqs[d].pc = "done"
  /\ reqs[c].status = 200 /\ reqs[d].status = 200
  /\ reqs[c].statusf = Some("deleted")
  /\ reqs[d].statusf = Some("approved")
  /\ reqs[c].idf = reqs[d].idf

\* C22 (as amended): the reviews of one identifier are not serialized,
\* yet for every interleaving of a delete request and an approve request
\* for the same submission, once both have been answered 200 neither a
\* Submission row nor a staging directory of the identifier remains, and
\* at no moment is there a staging directory without its row.
C22_DeleteApproveRaceAgrees ==
  /\ \A n \in 1..MaxSubmissions :
       ReviewStagingDir(n) \in DOMAIN staging => n \in SubmissionIds(submissions)
  /\ \A c \in Conns, d \in Conns :
       BothAnswered(c, d)
       => /\ reqs[c].idf[1] \notin SubmissionIds(submissions)
          /\ ReviewStagingDir(reqs[c].idf[1]) \notin DOMAIN staging
          /\ ~Disagree(submissions, staging, reqs[c].idf[1])

\* both requests have completed, the other submission is untouched
C22_Witness ==
  /\ BothAnswered("a", "b")
  /\ reqs["a"].idf = Some(1)
  /\ sqlite_sequence = 2
  /\ SubmissionIds(submissions) = {2}
  /\ DOMAIN staging = {ReviewStagingDir(2)}

\* C22 (as stated): for a submission with staged media there is an
\* interleaving of a delete request and an approve request after which
\* store and staging area disagree.
C22_AsStated ==
  \A n \in 1..MaxSubmissions :
    (n \in SubmissionIds(submissions) /\ ReviewStagingDir(n) \in DOMAIN staging)
    => \E order \in DeleteApproveOrders :
         LET end == RaceRun([rows |-> submissions, fs |-> staging], order, n)
         IN  Disagree(end.rows, end.fs, n)


\* ---------------------------------------------------------------------
\* C23
\* ---------------------------------------------------------------------
\* the two rows agree in every column but status and reviewed_at
SameButDecision(before, after) ==
  [after EXCEPT !.status = before.status, !.reviewed_at = before.reviewed_at]
    = before

\* C23: an approve or a reject of submission N changes only the status
\* and the review timestamp of row N: the staging area is unchanged, the
\* other columns of row N are unchanged and no other row changes.
\* (A step that leaves the table, the sequence and the staging area as
\* they are satisfies this without a look at the request.)
C23_DecisionFrame ==
  [][ \A i \in ReviewIds, s \in {"approved", "rejected"} :
        ( /\ resp'.op = "review"
          /\ << submissions, sqlite_sequence, staging >>'
               # << submissions, sqlite_sequence, staging >>
          /\ Review(i, Some(s)) \/ ReviewNarrow(i, Some(s)) )
        => /\ staging' = staging
           /\ sqlite_sequence' = sqlite_sequence
           /\ Len(submissions') = Len(submissions)
           /\ \A k \in 1..Len(submissions) :
                IF i # None /\ submissions[k].id = i[1]
                THEN SameButDecision(submissions[k], submissions'[k])
                ELSE submissions'[k] = submissions[k]
    ]_vars

\* row 1 was decided at time 1, its staged files are in place, row 2 is
\* as it was inserted
C23_Witness ==
  /\ resp.op = "review" /\ resp.status = 200
  /\ Len(submissions) = 2
  /\ submissions[1].id = 1
  /\ submissions[1].status = "rejected"
  /\ submissions[1].reviewed_at = Some(1)
  /\ submissions[1].submitted_at = 0
  /\ ReviewStagingDir(1) \in DOMAIN staging
  /\ staging[ReviewStagingDir(1)] = StagedFileNames
  /\ submissions[2].status = "pending"
  /\ submissions[2].reviewed_at = None


\* ---------------------------------------------------------------------
\* The static dataset (lib/nades loadNades, invalidateCache; update.sh)
\* ---------------------------------------------------------------------
\* the texts of a dataset file: a JSON array of up to MaxRecords records,
\* each written as the number of its slug
DatasetTexts ==
  UNION { [1..n -> 1..MaxRecords] : n \in 0..MaxRecords }

\* JSON.parse(raw) as Nade[]: one record per element of the array
ParseNades(raw) == [ k \in 1..Len(raw) |-> [slug |-> raw[k]] ]

\* a cache that counts as unset while it holds no record
CacheSet_nonEmpty(c) == c # None /\ c[1] # << >>

\* if (_cache): null is falsy, every array is truthy, the empty one too
CacheSet(c) == c # None

\* loadNades(): the cached array when there is one; otherwise the file
\* is read and parsed, and readFileSync throws when it does not exist
LoadNades ==
  /\ fileReads < MaxReads
  /\ IF CacheSet(cache)
     THEN /\ loaded' = [ok |-> TRUE, nades |-> cache[1], read |-> FALSE]
          /\ UNCHANGED << cache, fileReads >>
     ELSE IF nadesFile = None
     THEN /\ loaded' = [ok |-> FALSE, nades |-> << >>, read |-> FALSE]
          /\ UNCHANGED << cache, fileReads >>
     ELSE /\ cache' = Some(ParseNades(nadesFile[1]))
          /\ loaded' = [ok |-> TRUE, nades |-> ParseNades(nadesFile[1]),
                        read |-> TRUE]
          /\ fileReads' = fileReads + 1
  /\ UNCHANGED << accountVars, moderationVars, now, resp, raceVars, hashVars,
                  reportVars, nadesFile >>

\* invalidateCache()
InvalidateCache ==
  /\ cache' = None
  /\ fileReads' = 0
  /\ UNCHANGED << accountVars, moderationVars, now, resp, raceVars, hashVars,
                  reportVars, nadesFile, loaded >>

\* update.sh: the scraper rewrites the dataset file; where systemctl
\* exists the service is restarted, which ends the process and with it
\* the cache and the requests in flight
UpdateSh(text, systemctl) ==
  /\ nadesFile' = Some(text)
  /\ IF systemctl
     THEN /\ cache' = None
          /\ fileReads' = 0
          /\ reqs' = [c \in Conns |-> IdleReq]
     ELSE UNCHANGED << cache, fileReads, reqs >>
  /\ UNCHANGED << accountVars, moderationVars, now, resp, round0, hashVars,
                  reportVars, loaded >>

NextNades ==
  \/ LoadNades
  \/ InvalidateCache
  \/ \E text \in DatasetTexts, systemctl \in BOOLEAN : UpdateSh(text, systemctl)

SpecNades == Init /\ [][NextNades]_vars

\* ---------------------------------------------------------------------
\* C24
\* ---------------------------------------------------------------------
\* C24: the dataset is read lazily and at most once between
\* invalidations: a loadNades that finds no cache reads and parses the
\* file, every later loadNades returns the cached records without
\* reading the file, also when the file has changed, and the cache is
\* dropped only by invalidateCache or by a restart.
C24_ReadOnceUntilInvalidated ==
  [][ /\ (LoadNades /\ cache = None /\ nadesFile # None)
         => /\ cache' = Some(ParseNades(nadesFile[1]))
            /\ loaded'.ok /\ loaded'.read
            /\ loaded'.nades = cache'[1]
            /\ fileReads' = 1
      /\ (LoadNades /\ cache # None)
         => /\ cache' = cache
            /\ loaded'.ok /\ ~loaded'.read
            /\ loaded'.nades = cache[1]
            /\ fileReads' = fileReads
      /\ fileReads' <= 1
      /\ (fileReads' # fileReads /\ fileReads' # 0)
         => /\ LoadNades
            /\ cache = None
            /\ cache' # None
      /\ (cache # None /\ cache' # cache)
         => /\ InvalidateCache \/ \E text \in DatasetTexts : UpdateSh(text, TRUE)
            /\ cache' = None
            /\ fileReads' = 0
    ]_vars

\* the file was rewritten after the first load and the last loadNades
\* still returned the records read before
C24_Witness ==
  /\ cache # None
  /\ nadesFile # None
  /\ cache[1] # ParseNades(nadesFile[1])
  /\ cache[1] = << >>
  /\ loaded.ok /\ ~loaded.read
  /\ loaded.nades = cache[1]
  /\ fileReads = 1


\* ---------------------------------------------------------------------
\* An intake on connection "a" while review requests run on connection "b"
\* ---------------------------------------------------------------------
NextIntakeRace ==
  \/ \E form \in {UrlForm, ShotsForm} : IntakeBegin("a", form)
  \/ IntakeValidate("a")
  \/ IntakeMkdir("a")
  \/ IntakeWrite("a")
  \/ \E n \in 1..MaxSubmissions, s \in {"approved", "deleted"} :
       ReviewBegin("b", Some(n), Some(s))
  \/ ReviewCheck("b")
  \/ ReviewRm("b")
  \/ ReviewDelete("b")
  \/ \E c \in Conns : RequestEnd(c)

SpecIntakeRace == InitRace /\ [][NextIntakeRace]_vars

\* ---------------------------------------------------------------------
\* C25
\* ---------------------------------------------------------------------
\* a screenshot intake that was assigned identifier n and a delete of n,
\* both answered 200
IntakeAndDeleteAnswered(n) ==
  /\ reqs["a"].pc = "done" /\ reqs["b"].pc = "done"
  /\ reqs["a"].status = 200 /\ reqs["b"].status = 200
  /\ "form" \in DOMAIN reqs["a"]
  /\ HasScreenshots(reqs["a"].form)
  /\ reqs["a"].id = n
  /\ "idf" \in DOMAIN reqs["b"]
  /\ reqs["b"].idf = Some(n)
  /\ reqs["b"].statusf = Some("deleted")

\* C25: for every interleaving of a screenshot intake with a delete
\* request for the identifier just assigned, after both requests have
\* completed no staging directory exists for an identifier whose
\* Submission row is absent.
C25_NoOrphanAfterIntakeRace ==
  \A n \in 1..MaxSubmissions :
    IntakeAndDeleteAnswered(n)
    => \A k \in 1..MaxSubmissions :
         IntakeStagingDir(k) \in DOMAIN staging => k \in SubmissionIds(submissions)


\* ---------------------------------------------------------------------
\* C26
\* ---------------------------------------------------------------------
\* C26: a submission identifier is never assigned twice: every new row
\* receives an identifier above every identifier assigned before, those
\* of deleted rows included, so a staging directory left behind for a
\* removed submission is never taken over by a later submission.
C26_IdentifierNeverReused ==
  [][ /\ sqlite_sequence' >= sqlite_sequence
      /\ \A i \in 1..Len(submissions) : submissions[i].id <= sqlite_sequence
      /\ Len(submissions') > Len(submissions)
         => LET new == submissions'[Len(submissions')]
            IN  /\ new.id > sqlite_sequence
                /\ new.id = sqlite_sequence'
                /\ new.id \notin SubmissionIds(submissions)
                /\ IntakeStagingDir(new.id) \notin DOMAIN staging
                /\ IntakeStagingDir(new.id) \notin DOMAIN staging'
    ]_vars

\* submission 1 was deleted while its intake was writing and left its
\* directory behind; the next submission is row 2
C26_Witness ==
  /\ sqlite_sequence = 2
  /\ SubmissionIds(submissions) = {2}
  /\ IntakeStagingDir(1) \in DOMAIN staging
  /\ IntakeStagingDir(2) \in DOMAIN staging
  /\ staging[IntakeStagingDir(1)] = StagedFileNames


\* ---------------------------------------------------------------------
\* C27
\* ---------------------------------------------------------------------
\* C27: toggleBookmark(h, s) changes at most the single Bookmark row
\* (h, s): every Bookmark row of another identifier, every Bookmark row
\* of h for another slug and every Account row are unchanged.
C27_ToggleFrame ==
  [][ \A c \in CookieValues, f \in SlugFields :
        (resp'.op = "toggle" /\ Toggle(c, f))
        => LET hash == getAccountHash(c)
           IN  /\ accounts' = accounts
               /\ \A r \in Rows(bookmarks) \cup Rows(bookmarks') :
                    (hash = None \/ f = None
                       \/ r.account_hash # hash[1] \/ r.slug # f[1])
                    => CopiesIn(r, bookmarks') = CopiesIn(r, bookmarks)
               /\ BagCardinality(bookmarks') - BagCardinality(bookmarks)
                    \in {-1, 0, 1}
    ]_vars

\* a toggle has removed a bookmark while a bookmark of another
\* identifier and one of another slug are in the table
C27_Witness ==
  /\ resp.op = "toggle"
  /\ resp.status = 200
  /\ resp.body.bookmarked = FALSE
  /\ BagCardinality(bookmarks) = 2
  /\ \E r \in Rows(bookmarks), q \in Rows(bookmarks) :
       /\ r.account_hash # q.account_hash
       /\ r.slug # q.slug


\* ---------------------------------------------------------------------
\* C28
\* ---------------------------------------------------------------------
Decided(row) == row.status \in {"approved", "rejected"}

\* C28: no review request sets a submission back to pending: once a row
\* is approved or rejected, its status stays approved or rejected and
\* its review timestamp stays non-null until the row is removed.
C28_NeverBackToPending ==
  [][ \A i \in 1..Len(submissions) :
        Decided(submissions[i])
        => /\ submissions[i].reviewed_at # None
           /\ \A after \in RowOf(submissions', submissions[i].id) :
                /\ Decided(after)
                /\ after.reviewed_at # None
    ]_vars

\* a request for status pending was refused; row 1 changed its decision
\* at time 1, row 2 was decided at time 0
C28_Witness ==
  /\ resp.op = "review"
  /\ resp.status = 400
  /\ Len(submissions) = 2
  /\ submissions[1].status = "approved"
  /\ submissions[1].reviewed_at = Some(1)
  /\ submissions[2].status = "rejected"
  /\ submissions[2].reviewed_at = Some(0)
====
